---------------------------- MODULE Spec2Model ----------------------------
(***************************************************************************)
(* Verification model of the API-510 inspection manager's calculation and  *)
(* aggregation engine: the formula library of server/calculations.ts, the  *)
(* calculation.recalculate mutation of server/routers.ts and the database  *)
(* helpers of server/db.ts it drives.                                      *)
(*                                                                         *)
(* JavaScript numbers are modelled as exact rationals [n, d] (d > 0) with  *)
(* the two infinities [1, 0] and [-1, 0]; [0, 0] is NaN and an absent      *)
(* optional field (undefined, which arithmetic turns into NaN): both are   *)
(* falsy under `||` and make every comparison false. There is one zero.    *)
(***************************************************************************)
EXTENDS Integers, Sequences, FiniteSets, TLC

-----------------------------------------------------------------------------
(* JavaScript number arithmetic, over exact rationals                      *)

Abs(x) == IF x < 0 THEN -x ELSE x

RECURSIVE GCD(_, _)
GCD(a, b) == IF b = 0 THEN a ELSE GCD(b, a % b)

\* The rational n/d in lowest terms with a positive denominator (d # 0).
Rat(n, d) ==
    LET g == GCD(Abs(n), Abs(d))
        s == IF d < 0 THEN -1 ELSE 1
    IN  [n |-> s * (n \div g), d |-> s * (d \div g)]

Int2Rat(k) == [n |-> k, d |-> 1]

Zero == [n |-> 0, d |-> 1]

\* Infinity, -Infinity and an absent optional field (undefined).
Infinity == [n |-> 1, d |-> 0]

NegInfinity == [n |-> -1, d |-> 0]

Undefined == [n |-> 0, d |-> 0]

NaN == [n |-> 0, d |-> 0]

IsNaN(x) == x.n = 0 /\ x.d = 0

IsFinite(x) == x.d > 0

\* -1, 0 or 1: the sign of a finite or infinite number.
Sign(x) == IF x.n < 0 THEN -1 ELSE IF x.n > 0 THEN 1 ELSE 0

RatNeg(x) == [n |-> -x.n, d |-> x.d]

\* a + b; a finite operand added to an infinity gives that infinity, two
\* opposite infinities NaN.
RatAdd(a, b) ==
    IF IsNaN(a) \/ IsNaN(b) THEN NaN
    ELSE IF ~IsFinite(a) THEN (IF ~IsFinite(b) /\ b.n # a.n THEN NaN ELSE a)
    ELSE IF ~IsFinite(b) THEN b
    ELSE LET g == GCD(a.d, b.d)
         IN  Rat(a.n * (b.d \div g) + b.n * (a.d \div g), a.d * (b.d \div g))

RatSub(a, b) == RatAdd(a, RatNeg(b))

\* a * b, cancelling across before multiplying; an infinity times 0 is NaN.
RatMul(a, b) ==
    IF IsNaN(a) \/ IsNaN(b) THEN NaN
    ELSE IF ~IsFinite(a) \/ ~IsFinite(b)
    THEN [n |-> Sign(a) * Sign(b), d |-> 0]
    ELSE LET g1 == GCD(Abs(a.n), b.d)
             g2 == GCD(Abs(b.n), a.d)
         IN  Rat((a.n \div g1) * (b.n \div g2), (a.d \div g2) * (b.d \div g1))

\* 1 / b: 0 for an infinity, Infinity for 0.
Reciprocal(b) ==
    IF IsNaN(b) THEN NaN
    ELSE IF ~IsFinite(b) THEN Zero
    ELSE IF b.n = 0 THEN Infinity
    ELSE IF b.n < 0 THEN [n |-> -b.d, d |-> -b.n]
    ELSE [n |-> b.d, d |-> b.n]

\* a / b; 0 / 0 is NaN.
RatDiv(a, b) == RatMul(a, Reciprocal(b))

\* a < b, a <= b: false when an operand is NaN.
RatLt(a, b) ==
    IF IsNaN(a) \/ IsNaN(b) THEN FALSE
    ELSE IF IsFinite(a) /\ IsFinite(b) THEN a.n * b.d < b.n * a.d
    ELSE IF ~IsFinite(a) /\ ~IsFinite(b) THEN a.n < b.n
    ELSE IF ~IsFinite(a) THEN a.n < 0
    ELSE b.n > 0

RatLe(a, b) == ~IsNaN(a) /\ ~IsNaN(b) /\ ~RatLt(b, a)

\* Math.min
RatMin(a, b) ==
    IF IsNaN(a) \/ IsNaN(b) THEN NaN
    ELSE IF RatLt(b, a) THEN b ELSE a

\* x || y on numbers: 0 and undefined are falsy.
OrElse(x, y) == IF x.n = 0 THEN y ELSE x

\* Math.floor of a finite number.
Floor(x) == x.n \div x.d

\* The quotient and remainder of (r * k) by d for 0 <= r < d and k a power
\* of ten, one decimal digit at a time.
RECURSIVE LongDiv(_, _, _)
LongDiv(r, d, k) ==
    IF k = 1 THEN [q |-> 0, r |-> r]
    ELSE LET rest == LongDiv(r, d, k \div 10)
         IN  [q |-> 10 * rest.q + (10 * rest.r) \div d, r |-> (10 * rest.r) % d]

\* Math.round(x * k) / k for k a power of ten: the nearest multiple of 1/k,
\* halves rounded up; an infinity stays itself.
RoundTo(x, k) ==
    IF ~IsFinite(x) THEN x
    ELSE LET whole == x.n \div x.d
             frac == LongDiv(x.n % x.d, x.d, k)
             up == IF 2 * frac.r >= x.d THEN 1 ELSE 0
         IN  Rat(whole * k + frac.q + up, k)

-----------------------------------------------------------------------------
(* server/calculations.ts: the formula library                             *)

MIN_NOMINAL_RATE == Rat(1, 1000)

MAX_INSPECTION_INTERVAL == 10

\* calculateShellMinimumThickness with the radius left out of the product.
calculateShellMinimumThicknessNoRadius(pressure, radius, allowableStress, jointEfficiency) ==
    LET denominator == RatSub(RatMul(allowableStress, jointEfficiency),
                              RatMul(Rat(6, 10), pressure))
    IN  IF RatLe(denominator, Zero) THEN Infinity
        ELSE RatDiv(pressure, denominator)

\* calculateShellMinimumThickness with 0 as the result for a pressure the
\* shell cannot sustain.
calculateShellMinimumThicknessZeroSentinel(pressure, radius, allowableStress, jointEfficiency) ==
    LET denominator == RatSub(RatMul(allowableStress, jointEfficiency),
                              RatMul(Rat(6, 10), pressure))
    IN  IF RatLe(denominator, Zero) THEN Zero
        ELSE RatDiv(RatMul(pressure, radius), denominator)

\* t_min = PR / (SE - 0.6P)
calculateShellMinimumThickness(pressure, radius, allowableStress, jointEfficiency) ==
    LET denominator == RatSub(RatMul(allowableStress, jointEfficiency),
                              RatMul(Rat(6, 10), pressure))
    IN  IF RatLe(denominator, Zero) THEN Infinity
        ELSE RatDiv(RatMul(pressure, radius), denominator)

\* t_min = PD / (2SE - 0.2P)
calculateEllipsoidalHeadMinimumThickness(pressure, diameter, allowableStress, jointEfficiency) ==
    LET denominator == RatSub(RatMul(RatMul(Int2Rat(2), allowableStress), jointEfficiency),
                              RatMul(Rat(2, 10), pressure))
    IN  IF RatLe(denominator, Zero) THEN Infinity
        ELSE RatDiv(RatMul(pressure, diameter), denominator)

\* Math.sqrt, to three decimals (the square root of a rational is in general
\* irrational): the greatest k/1000 whose square is at most x; NaN for a
\* negative number and for NaN.
RECURSIVE SqrtSearch(_, _, _)
SqrtSearch(x, lo, hi) ==
    IF hi - lo <= 1 THEN lo
    ELSE LET mid == (lo + hi) \div 2
         IN  IF mid * mid <= x THEN SqrtSearch(x, mid, hi)
                               ELSE SqrtSearch(x, lo, mid)

Sqrt(x) ==
    IF IsNaN(x) \/ x.n < 0 THEN NaN
    ELSE IF ~IsFinite(x) THEN x
    ELSE Rat(SqrtSearch((x.n * 1000000) \div x.d, 0, 46340), 1000)

\* t_min = PLM / (2SE - 0.2P), M = 0.25 * (3 + sqrt(L / r)); the knuckle
\* radius r defaults to 6% of the crown radius.
calculateTorisphericalHeadMinimumThickness(pressure, crownRadius, allowableStress, jointEfficiency, knuckleRadius) ==
    LET r == OrElse(knuckleRadius, RatMul(crownRadius, Rat(6, 100)))
        M == RatMul(Rat(1, 4), RatAdd(Int2Rat(3), Sqrt(RatDiv(crownRadius, r))))
        denominator == RatSub(RatMul(RatMul(Int2Rat(2), allowableStress), jointEfficiency),
                              RatMul(Rat(2, 10), pressure))
    IN  IF RatLe(denominator, Zero) THEN Infinity
        ELSE RatDiv(RatMul(RatMul(pressure, crownRadius), M), denominator)

\* calculateHemisphericalHeadMinimumThickness with the shell's denominator.
calculateHemisphericalHeadMinimumThicknessAsShell(pressure, radius, allowableStress, jointEfficiency) ==
    LET denominator == RatSub(RatMul(allowableStress, jointEfficiency),
                              RatMul(Rat(6, 10), pressure))
    IN  IF RatLe(denominator, Zero) THEN Infinity
        ELSE RatDiv(RatMul(pressure, radius), denominator)

\* t_min = PR / (2SE - 0.2P)
calculateHemisphericalHeadMinimumThickness(pressure, radius, allowableStress, jointEfficiency) ==
    LET denominator == RatSub(RatMul(RatMul(Int2Rat(2), allowableStress), jointEfficiency),
                              RatMul(Rat(2, 10), pressure))
    IN  IF RatLe(denominator, Zero) THEN Infinity
        ELSE RatDiv(RatMul(pressure, radius), denominator)

\* calculateShellMAWP with the head formulas' 0.2 in the denominator.
calculateShellMAWPHeadFactor(thickness, radius, allowableStress, jointEfficiency) ==
    LET denominator == RatAdd(radius, RatMul(Rat(2, 10), thickness))
    IN  IF RatLe(denominator, Zero) THEN Zero
        ELSE RatDiv(RatMul(RatMul(allowableStress, jointEfficiency), thickness), denominator)

\* calculateShellMAWP without the test of the denominator.
calculateShellMAWPUnguarded(thickness, radius, allowableStress, jointEfficiency) ==
    RatDiv(RatMul(RatMul(allowableStress, jointEfficiency), thickness),
           RatAdd(radius, RatMul(Rat(6, 10), thickness)))

\* P = (SE * t) / (R + 0.6t)
calculateShellMAWP(thickness, radius, allowableStress, jointEfficiency) ==
    LET denominator == RatAdd(radius, RatMul(Rat(6, 10), thickness))
    IN  IF RatLe(denominator, Zero) THEN Zero
        ELSE RatDiv(RatMul(RatMul(allowableStress, jointEfficiency), thickness), denominator)

\* P = (2SE * t) / (D + 0.2t)
calculateEllipsoidalHeadMAWP(thickness, diameter, allowableStress, jointEfficiency) ==
    LET denominator == RatAdd(diameter, RatMul(Rat(2, 10), thickness))
    IN  IF RatLe(denominator, Zero) THEN Zero
        ELSE RatDiv(RatMul(RatMul(RatMul(Int2Rat(2), allowableStress), jointEfficiency),
                           thickness), denominator)

\* P = (2SE * t) / (R + 0.2t)
calculateHemisphericalHeadMAWP(thickness, radius, allowableStress, jointEfficiency) ==
    LET denominator == RatAdd(radius, RatMul(Rat(2, 10), thickness))
    IN  IF RatLe(denominator, Zero) THEN Zero
        ELSE RatDiv(RatMul(RatMul(RatMul(Int2Rat(2), allowableStress), jointEfficiency),
                           thickness), denominator)

\* CR_ST = (t_previous - t_actual) / dT_recent; the nominal rate replaces a
\* non-positive span and a negative or zero rate, and nothing else.
calculateShortTermCorrosionRate(previousThickness, actualThickness, timeSpan) ==
    IF RatLe(timeSpan, Zero) THEN MIN_NOMINAL_RATE
    ELSE LET rate == RatDiv(RatSub(previousThickness, actualThickness), timeSpan)
         IN  IF RatLt(rate, Zero) THEN MIN_NOMINAL_RATE
             ELSE IF rate = Zero THEN MIN_NOMINAL_RATE
             ELSE rate

\* CR_LT = (t_initial - t_actual) / dT_total
calculateLongTermCorrosionRate(initialThickness, actualThickness, totalTimeSpan) ==
    IF RatLe(totalTimeSpan, Zero) THEN MIN_NOMINAL_RATE
    ELSE LET rate == RatDiv(RatSub(initialThickness, actualThickness), totalTimeSpan)
         IN  IF RatLt(rate, Zero) THEN MIN_NOMINAL_RATE
             ELSE IF rate = Zero THEN MIN_NOMINAL_RATE
             ELSE rate

\* calculateRemainingLife with the margin tested before the rate.
calculateRemainingLifeMarginFirst(actualThickness, minimumThickness, corrosionRate) ==
    LET corrosionAllowance == RatSub(actualThickness, minimumThickness)
    IN  IF RatLe(corrosionAllowance, Zero) THEN Zero
        ELSE IF RatLe(corrosionRate, Zero) THEN Int2Rat(999)
        ELSE RatDiv(corrosionAllowance, corrosionRate)

\* RL = (t_actual - t_min) / CR; the rate is tested before the margin.
calculateRemainingLife(actualThickness, minimumThickness, corrosionRate) ==
    IF RatLe(corrosionRate, Zero) THEN Int2Rat(999)
    ELSE LET corrosionAllowance == RatSub(actualThickness, minimumThickness)
         IN  IF RatLe(corrosionAllowance, Zero) THEN Zero
             ELSE RatDiv(corrosionAllowance, corrosionRate)

\* calculateNextInspectionInterval without the ceiling.
calculateNextInspectionIntervalUncapped(remainingLife) ==
    IF RatLe(remainingLife, Zero) THEN Zero
    ELSE RatDiv(remainingLife, Int2Rat(2))

\* The lesser of 10 years and half the remaining life.
calculateNextInspectionInterval(remainingLife) ==
    IF RatLe(remainingLife, Zero) THEN Zero
    ELSE LET halfLife == RatDiv(remainingLife, Int2Rat(2))
         IN  RatMin(halfLife, Int2Rat(MAX_INSPECTION_INTERVAL))

\* Dates are counted in days; a year is 365.25 days.
calculateTimeSpanYears(startDate, endDate) ==
    RatDiv(Int2Rat(endDate - startDate), Rat(1461, 4))

-----------------------------------------------------------------------------
(* server/calculations.ts: performComponentCalculations                    *)
(* A CalculationInput is a record; an optional number that is not supplied *)
(* is Undefined, componentType and headType are strings.                   *)

\* Minimum thickness by component type and head type.
MinimumThicknessOf(input) ==
    LET radius == RatDiv(input.insideDiameter, Int2Rat(2))
        diameter == input.insideDiameter
    IN  IF input.componentType = "head"
        THEN IF input.headType = "hemispherical"
             THEN calculateHemisphericalHeadMinimumThickness(
                      input.designPressure, radius, input.allowableStress, input.jointEfficiency)
             ELSE IF input.headType = "torispherical"
             THEN calculateTorisphericalHeadMinimumThickness(
                      input.designPressure, diameter, input.allowableStress,
                      input.jointEfficiency, Undefined)
             ELSE calculateEllipsoidalHeadMinimumThickness(
                      input.designPressure, diameter, input.allowableStress, input.jointEfficiency)
        ELSE calculateShellMinimumThickness(
                 input.designPressure, radius, input.allowableStress, input.jointEfficiency)

\* MAWP by component type and head type (a torispherical head uses the
\* ellipsoidal formula).
MAWPOf(input) ==
    LET radius == RatDiv(input.insideDiameter, Int2Rat(2))
        diameter == input.insideDiameter
    IN  IF input.componentType = "head"
        THEN IF input.headType = "hemispherical"
             THEN calculateHemisphericalHeadMAWP(
                      input.actualThickness, radius, input.allowableStress, input.jointEfficiency)
             ELSE calculateEllipsoidalHeadMAWP(
                      input.actualThickness, diameter, input.allowableStress, input.jointEfficiency)
        ELSE calculateShellMAWP(
                 input.actualThickness, radius, input.allowableStress, input.jointEfficiency)

\* CorrosionRatesOf with the long-term span defaulting to 10 years.
CorrosionRatesOfTotalSpanTen(input) ==
    LET timeSpan == OrElse(input.timeSpan, Int2Rat(10))
        totalTimeSpan == OrElse(input.totalTimeSpan, Int2Rat(10))
        previousThickness == OrElse(input.previousThickness,
                                 OrElse(input.nominalThickness, input.actualThickness))
        initialThickness == OrElse(input.initialThickness,
                                OrElse(input.nominalThickness, previousThickness))
    IN  [corrosionRateST |-> calculateShortTermCorrosionRate(
                                 previousThickness, input.actualThickness, timeSpan),
         corrosionRateLT |-> calculateLongTermCorrosionRate(
                                 initialThickness, input.actualThickness, totalTimeSpan)]

\* The spans and thicknesses the two rates are computed from, with the
\* `||` defaults, and the two rates.
CorrosionRatesOf(input) ==
    LET timeSpan == OrElse(input.timeSpan, Int2Rat(10))
        totalTimeSpan == OrElse(input.totalTimeSpan, timeSpan)
        previousThickness == OrElse(input.previousThickness,
                                 OrElse(input.nominalThickness, input.actualThickness))
        initialThickness == OrElse(input.initialThickness,
                                OrElse(input.nominalThickness, previousThickness))
    IN  [corrosionRateST |-> calculateShortTermCorrosionRate(
                                 previousThickness, input.actualThickness, timeSpan),
         corrosionRateLT |-> calculateLongTermCorrosionRate(
                                 initialThickness, input.actualThickness, totalTimeSpan)]

\* GoverningRateOf with a tie given to the short-term rate.
GoverningRateTieToShortTerm(corrosionRateLT, corrosionRateST) ==
    IF RatLt(corrosionRateST, corrosionRateLT)
    THEN [governingRate |-> "LT", corrosionRate |-> corrosionRateLT,
          governingRateReason |-> "Long-term rate is higher - indicates sustained corrosion"]
    ELSE [governingRate |-> "ST", corrosionRate |-> corrosionRateST,
          governingRateReason |->
              "Short-term rate is higher - indicates accelerated recent corrosion"]

\* The governing rate: the higher of the two, the long-term one on a tie.
GoverningRateOf(corrosionRateLT, corrosionRateST) ==
    IF RatLe(corrosionRateST, corrosionRateLT)
    THEN [governingRate |-> "LT", corrosionRate |-> corrosionRateLT,
          governingRateReason |-> "Long-term rate is higher - indicates sustained corrosion"]
    ELSE [governingRate |-> "ST", corrosionRate |-> corrosionRateST,
          governingRateReason |->
              "Short-term rate is higher - indicates accelerated recent corrosion"]

\* The remaining life before rounding.
RemainingLifeOf(input) ==
    LET rates == CorrosionRatesOf(input)
        gov == GoverningRateOf(rates.corrosionRateLT, rates.corrosionRateST)
    IN  calculateRemainingLife(input.actualThickness, MinimumThicknessOf(input),
                               gov.corrosionRate)

IsBelowMinimumOf(input) == RatLt(input.actualThickness, MinimumThicknessOf(input))

\* StatusMessageOf with the remaining life tested before the flag.
StatusMessageLifeFirst(isBelowMinimum, remainingLife) ==
    IF RatLt(remainingLife, Int2Rat(2))
    THEN "CRITICAL - Less than 2 years remaining life"
    ELSE IF isBelowMinimum THEN "UNSAFE - BELOW MINIMUM THICKNESS"
    ELSE IF RatLt(remainingLife, Int2Rat(5))
    THEN "WARNING - Less than 5 years remaining life"
    ELSE "ACCEPTABLE"

\* The status message, from the flag and the remaining life before rounding.
StatusMessageOf(isBelowMinimum, remainingLife) ==
    IF isBelowMinimum THEN "UNSAFE - BELOW MINIMUM THICKNESS"
    ELSE IF RatLt(remainingLife, Int2Rat(2))
    THEN "CRITICAL - Less than 2 years remaining life"
    ELSE IF RatLt(remainingLife, Int2Rat(5))
    THEN "WARNING - Less than 5 years remaining life"
    ELSE "ACCEPTABLE"

\* The Invalid Date setFullYear(NaN) leaves.
InvalidDate == -2

\* The CalculationResult. nextInspectionDate is kept as the whole number of
\* years it lies after the current date.
performComponentCalculations(input) ==
    LET minimumThickness == MinimumThicknessOf(input)
        calculatedMAWP == MAWPOf(input)
        rates == CorrosionRatesOf(input)
        gov == GoverningRateOf(rates.corrosionRateLT, rates.corrosionRateST)
        remainingLife == RemainingLifeOf(input)
        nextInspectionYears == calculateNextInspectionInterval(remainingLife)
        isBelowMinimum == IsBelowMinimumOf(input)
    IN  [minimumThickness |-> RoundTo(minimumThickness, 1000),
         calculatedMAWP |-> RoundTo(calculatedMAWP, 10),
         corrosionRate |-> RoundTo(gov.corrosionRate, 10000),
         corrosionRateLT |-> RoundTo(rates.corrosionRateLT, 10000),
         corrosionRateST |-> RoundTo(rates.corrosionRateST, 10000),
         governingRate |-> gov.governingRate,
         governingRateReason |-> gov.governingRateReason,
         remainingLife |-> RoundTo(remainingLife, 10),
         nextInspectionYears |-> RoundTo(nextInspectionYears, 10),
         nextInspectionDate |-> IF IsNaN(nextInspectionYears) THEN InvalidDate
                                ELSE Floor(nextInspectionYears),
         isBelowMinimum |-> isBelowMinimum,
         statusMessage |-> StatusMessageOf(isBelowMinimum, remainingLife)]

-----------------------------------------------------------------------------
(* The database (drizzle/schema.ts, server/db.ts) and the callers          *)

VARIABLES
    inspections,            \* table inspections: a sequence of rows
    professionalReports,    \* table professionalReports: a sequence of rows
    tmlReadings,            \* table tmlReadings: a sequence of rows
    componentCalculations,  \* table componentCalculations: a bag of rows
    materialStressValues,   \* table materialStressValues: a sequence of rows
    notifications,          \* what notifyOwner has been handed
    pc,                     \* per caller: where its recalculate run stands
    arg,                    \* per caller: input.inspectionId
    inspection,             \* per caller: the inspection row read
    report,                 \* per caller: the report row read
    readings,               \* per caller: the tmlReadings rows read
    evaluated,              \* per caller: the CalculationInputs of this run
    criticalComponents,     \* per caller: the run's criticalComponents
    response,               \* per caller: how its last run ended
    runNo,                  \* per caller: the number of its current run
    runs,                   \* the runs started so far
    completed,              \* per inspection id: the runs completed for it
    overlapped,             \* the inspections two runs have overlapped on
    firstResults,           \* per inspection id: what its first completed run
                            \* left, when no other run overlapped it
    call                    \* the last call of a formula and its result

vars == <<inspections, professionalReports, tmlReadings, componentCalculations,
          materialStressValues, notifications, pc, arg, inspection, report, readings, evaluated,
          criticalComponents, response, runNo, runs, completed, overlapped,
          firstResults, call>>

dbVars == <<inspections, professionalReports, tmlReadings, componentCalculations,
            materialStressValues>>

runVars == <<notifications, pc, arg, inspection, report, readings, evaluated,
             criticalComponents, response, runNo, runs, completed, overlapped,
             firstResults>>

\* A varchar column holding a decimal numeral: digits / 10^scale, written
\* with exactly `scale` fraction digits. NULL and "Infinity" have no digits.
Str(digits, scale) == [digits |-> digits, scale |-> scale]

NullStr == [digits |-> 0, scale |-> -1]

InfinityStr == [digits |-> 1, scale |-> -2]

RECURSIVE Pow10(_)
Pow10(k) == IF k = 0 THEN 1 ELSE 10 * Pow10(k - 1)

\* parseFloat of a numeral.
parseFloat(str) ==
    IF str = InfinityStr THEN Infinity
    ELSE IF str = NullStr THEN Undefined
    ELSE Rat(str.digits, Pow10(str.scale))

\* Number.prototype.toString of a number with a finite decimal expansion:
\* the shortest numeral.
RECURSIVE ScaleOf(_, _)
ScaleOf(d, k) == IF Pow10(k) % d = 0 THEN k ELSE ScaleOf(d, k + 1)

toString(x) ==
    IF ~IsFinite(x) THEN InfinityStr
    ELSE LET k == ScaleOf(x.d, 0)
         IN  Str(x.n * (Pow10(k) \div x.d), k)

\* s || t on strings: NULL is falsy.
StrOrElse(s, t) == IF s = NullStr THEN t ELSE s

\* A JavaScript `undefined` where a row was expected.
NoRow == [id |-> 0]

NullDate == -1

\* db.select().from(table).where(...): the rows that match, in table order.
SelectWhere(table, Test(_)) == SelectSeq(table, Test)

\* result[0] of a select ... limit 1.
FirstRow(rows) == IF Len(rows) = 0 THEN NoRow ELSE Head(rows)

getInspectionById(id) ==
    FirstRow(SelectWhere(inspections, LAMBDA r : r.id = id))

\* getProfessionalReportByInspectionId without its condition: the first
\* report of the table.
getProfessionalReportOfAnyInspection(inspectionId) ==
    FirstRow(professionalReports)

getProfessionalReportByInspectionId(inspectionId) ==
    FirstRow(SelectWhere(professionalReports, LAMBDA r : r.inspectionId = inspectionId))

getTmlReadingsByInspectionId(inspectionId) ==
    SelectWhere(tmlReadings, LAMBDA r : r.inspectionId = inspectionId)

\* deleteComponentCalculationsByReportId with a condition no row meets.
deleteComponentCalculationsNoMatch(reportId) == componentCalculations

\* deleteComponentCalculationsByReportId without its condition: every row
\* is deleted.
deleteComponentCalculationsOfAllReports(reportId) == [r \in {} |-> 0]

\* componentCalculations after the delete ... where reportId = reportId.
deleteComponentCalculationsByReportId(reportId) ==
    LET kept == {r \in DOMAIN componentCalculations : r.reportId # reportId}
    IN  [r \in kept |-> componentCalculations[r]]

\* table after the insert of one row.
createComponentCalculation(table, data) ==
    IF data \in DOMAIN table
    THEN [table EXCEPT ![data] = @ + 1]
    ELSE [r \in DOMAIN table \cup {data} |-> IF r = data THEN 1 ELSE table[r]]

\* The rows of componentCalculations that match, counted with multiplicity.
RECURSIVE CountRows(_, _)
CountRows(rows, table) ==
    IF rows = {} THEN 0
    ELSE LET r == CHOOSE x \in rows : TRUE
         IN  table[r] + CountRows(rows \ {r}, table)

getComponentCalculationsByInspectionId(inspectionId) ==
    {r \in DOMAIN componentCalculations : r.inspectionId = inspectionId}

-----------------------------------------------------------------------------
(* server/routers.ts: calculation.recalculate                              *)

Callers == {"a", "b"}

\* The runs the callers start between them.
MaxRuns == 3

components == <<"shell", "east_head", "west_head">>

\* Math.min(...xs) of a non-empty sequence.
RECURSIVE MinOf(_)
MinOf(xs) == IF Len(xs) = 1 THEN xs[1] ELSE RatMin(xs[1], MinOf(Tail(xs)))

\* xs.map(f), a sequence.
MapSeq(xs, F(_)) == [i \in 1..Len(xs) |-> F(xs[i])]

\* The elapsed span in years, 10 when a date is missing.
TimeSpanOf(insp) ==
    IF insp.inspectionDate # NullDate /\ insp.previousInspectionDate # NullDate
    THEN calculateTimeSpanYears(insp.previousInspectionDate, insp.inspectionDate)
    ELSE Int2Rat(10)

\* componentGroups[componentType] || []: a reading without a component
\* type counts as a shell reading.
GroupOf(rows, componentType) ==
    SelectSeq(rows, LAMBDA r :
        (IF r.componentType = "" THEN "shell" ELSE r.componentType) = componentType)

\* ThicknessesOf with the previous thickness left at 0 when no reading
\* supplies one.
ThicknessesOfNoPreviousFallback(insp, rows, componentType) ==
    LET group == GroupOf(rows, componentType)
        nominal == parseFloat(StrOrElse(insp.nominalThickness, Str(5, 1)))
        thicknesses == SelectSeq(
            MapSeq(group, LAMBDA r :
                parseFloat(StrOrElse(r.actualThickness, StrOrElse(r.tml1, Str(0, 0))))),
            LAMBDA t : RatLt(Zero, t))
        prevThicknesses == SelectSeq(
            MapSeq(group, LAMBDA r :
                parseFloat(StrOrElse(r.previousThickness, Str(0, 0)))),
            LAMBDA t : RatLt(Zero, t))
    IN  [actualThickness |->
             IF Len(group) > 0 /\ Len(thicknesses) > 0 THEN MinOf(thicknesses) ELSE nominal,
         previousThickness |->
             IF Len(group) > 0 /\ Len(prevThicknesses) > 0 THEN MinOf(prevThicknesses)
             ELSE Zero]

\* The worst-case actual and previous thickness of one component: the least
\* positive value among its readings, the nominal thickness without one.
ThicknessesOf(insp, rows, componentType) ==
    LET group == GroupOf(rows, componentType)
        nominal == parseFloat(StrOrElse(insp.nominalThickness, Str(5, 1)))
        thicknesses == SelectSeq(
            MapSeq(group, LAMBDA r :
                parseFloat(StrOrElse(r.actualThickness, StrOrElse(r.tml1, Str(0, 0))))),
            LAMBDA t : RatLt(Zero, t))
        prevThicknesses == SelectSeq(
            MapSeq(group, LAMBDA r :
                parseFloat(StrOrElse(r.previousThickness, Str(0, 0)))),
            LAMBDA t : RatLt(Zero, t))
    IN  [actualThickness |->
             IF Len(group) > 0 /\ Len(thicknesses) > 0 THEN MinOf(thicknesses) ELSE nominal,
         previousThickness |->
             IF Len(group) > 0 /\ Len(prevThicknesses) > 0 THEN MinOf(prevThicknesses)
             ELSE nominal]

\* componentType.includes('head')
IsHead(componentType) == componentType \in {"east_head", "west_head"}

\* The CalculationInput recalculate builds for one component.
ComponentInput(insp, rows, componentType) ==
    LET t == ThicknessesOf(insp, rows, componentType)
    IN  [designPressure |-> OrElse(insp.designPressure, Int2Rat(250)),
         designTemperature |-> OrElse(insp.designTemperature, Int2Rat(200)),
         insideDiameter |-> parseFloat(StrOrElse(insp.insideDiameter, Str(72, 0))),
         allowableStress |-> OrElse(insp.allowableStress, Int2Rat(20000)),
         jointEfficiency |-> parseFloat(StrOrElse(insp.jointEfficiency, Str(85, 2))),
         actualThickness |-> t.actualThickness,
         previousThickness |-> t.previousThickness,
         nominalThickness |-> parseFloat(StrOrElse(insp.nominalThickness, Str(5, 1))),
         timeSpan |-> TimeSpanOf(insp),
         initialThickness |-> Undefined,
         totalTimeSpan |-> Undefined,
         componentType |-> IF IsHead(componentType) THEN "head" ELSE "shell",
         headType |-> IF insp.headType = "" THEN "ellipsoidal" ELSE insp.headType]

\* calcResult.isBelowMinimum || calcResult.remainingLife < 2, on the
\* rounded result.
IsCritical(calcResult) ==
    calcResult.isBelowMinimum \/ RatLt(calcResult.remainingLife, Int2Rat(2))

\* The row recalculate inserts for one component (the columns that echo
\* the inspection row, and timeSpan, are left out).
CalculationRow(rep, inspectionId, componentType, input, calcResult) ==
    [reportId |-> rep.id,
     inspectionId |-> inspectionId,
     componentName |-> IF componentType = "shell" THEN "Vessel Shell"
                       ELSE IF componentType = "east_head" THEN "East Head"
                       ELSE "West Head",
     componentType |-> componentType,
     previousThickness |-> toString(input.previousThickness),
     actualThickness |-> toString(input.actualThickness),
     minimumThickness |-> toString(calcResult.minimumThickness),
     calculatedMAWP |-> Floor(RoundTo(calcResult.calculatedMAWP, 1)),
     corrosionRate |-> toString(calcResult.corrosionRate),
     corrosionRateLT |-> toString(calcResult.corrosionRateLT),
     corrosionRateST |-> toString(calcResult.corrosionRateST),
     governingRate |-> calcResult.governingRate,
     governingRateReason |-> calcResult.governingRateReason,
     remainingLife |-> toString(calcResult.remainingLife),
     nextInspectionYears |-> toString(calcResult.nextInspectionYears),
     nextInspectionDate |-> calcResult.nextInspectionDate,
     isBelowMinimum |-> calcResult.isBelowMinimum,
     statusMessage |-> calcResult.statusMessage]

Active(p) == pc[p] # "idle"

\* A caller's run ends: its response, and the run no longer stands anywhere.
EndRun(p, how) ==
    /\ pc' = [pc EXCEPT ![p] = "idle"]
    /\ response' = [response EXCEPT ![p] = how]

\* The mutation is called and reads the inspection; it throws without one.
RecalcGetInspection(p, inspectionId) ==
    /\ pc[p] = "idle"
    /\ runs < MaxRuns
    /\ runs' = runs + 1
    /\ runNo' = [runNo EXCEPT ![p] = runs + 1]
    /\ arg' = [arg EXCEPT ![p] = inspectionId]
    /\ inspection' = [inspection EXCEPT ![p] = getInspectionById(inspectionId)]
    /\ report' = [report EXCEPT ![p] = NoRow]
    /\ readings' = [readings EXCEPT ![p] = <<>>]
    /\ evaluated' = [evaluated EXCEPT ![p] = <<>>]
    /\ criticalComponents' = [criticalComponents EXCEPT ![p] = <<>>]
    /\ IF getInspectionById(inspectionId) = NoRow
       THEN /\ EndRun(p, "Inspection not found")
            /\ UNCHANGED overlapped
       ELSE /\ pc' = [pc EXCEPT ![p] = "getReport"]
            /\ response' = [response EXCEPT ![p] = "pending"]
            /\ overlapped' =
                   IF \E q \in Callers \ {p} : Active(q) /\ arg[q] = inspectionId
                   THEN overlapped \cup {inspectionId} ELSE overlapped
    /\ UNCHANGED <<dbVars, notifications, completed, firstResults, call>>

\* It reads the inspection's report; it throws without one.
RecalcGetReport(p) ==
    /\ pc[p] = "getReport"
    /\ report' = [report EXCEPT ![p] = getProfessionalReportByInspectionId(arg[p])]
    /\ IF getProfessionalReportByInspectionId(arg[p]) = NoRow
       THEN EndRun(p, "Professional report not found")
       ELSE /\ pc' = [pc EXCEPT ![p] = "delete"]
            /\ UNCHANGED response
    /\ UNCHANGED <<dbVars, notifications, arg, inspection, readings, evaluated,
                   criticalComponents, runNo, runs, completed, overlapped,
                   firstResults, call>>

\* It deletes the report's calculations.
RecalcDelete(p) ==
    /\ pc[p] = "delete"
    /\ componentCalculations' = deleteComponentCalculationsByReportId(report[p].id)
    /\ pc' = [pc EXCEPT ![p] = "getTml"]
    /\ UNCHANGED <<inspections, professionalReports, tmlReadings, materialStressValues,
                   notifications, arg,
                   inspection, report, readings, evaluated, criticalComponents,
                   response, runNo, runs, completed, overlapped, firstResults, call>>

\* It reads the inspection's TML readings.
RecalcGetTml(p) ==
    /\ pc[p] = "getTml"
    /\ readings' = [readings EXCEPT ![p] = getTmlReadingsByInspectionId(arg[p])]
    /\ pc' = [pc EXCEPT ![p] = "component"]
    /\ UNCHANGED <<dbVars, notifications, arg, inspection, report, evaluated,
                   criticalComponents, response, runNo, runs, completed, overlapped,
                   firstResults, call>>

\* AfterComponent with the loop left after its first turn.
AfterComponentLeaveEarly(k) == "notify"

\* Where the loop stands after its k-th component.
AfterComponent(k) == IF k < Len(components) THEN "component" ELSE "notify"

\* One turn of the loop: the next component is evaluated, noted as critical
\* or not, and its row inserted.
RecalcComponent(p) ==
    /\ pc[p] = "component"
    /\ LET k == Len(evaluated[p]) + 1
           componentType == components[k]
           input == ComponentInput(inspection[p], readings[p], componentType)
           calcResult == performComponentCalculations(input)
       IN  /\ evaluated' = [evaluated EXCEPT ![p] =
                  Append(@, [componentType |-> componentType, input |-> input])]
           /\ criticalComponents' = [criticalComponents EXCEPT ![p] =
                  IF IsCritical(calcResult) THEN Append(@, componentType) ELSE @]
           /\ componentCalculations' = createComponentCalculation(
                  componentCalculations,
                  CalculationRow(report[p], arg[p], componentType, input, calcResult))
           /\ pc' = [pc EXCEPT ![p] = AfterComponent(k)]
    /\ UNCHANGED <<inspections, professionalReports, tmlReadings, materialStressValues,
                   notifications, arg,
                   inspection, report, readings, response, runNo, runs, completed,
                   overlapped, firstResults, call>>

\* The result values of a stored row: what the calculation returned for the
\* component, without the keys, the thicknesses fed in and the date.
ResultValues(r) ==
    [componentType |-> r.componentType,
     minimumThickness |-> r.minimumThickness,
     calculatedMAWP |-> r.calculatedMAWP,
     corrosionRate |-> r.corrosionRate,
     corrosionRateLT |-> r.corrosionRateLT,
     corrosionRateST |-> r.corrosionRateST,
     governingRate |-> r.governingRate,
     remainingLife |-> r.remainingLife,
     nextInspectionYears |-> r.nextInspectionYears,
     isBelowMinimum |-> r.isBelowMinimum,
     statusMessage |-> r.statusMessage]

\* What the store holds for an inspection: per canonical component the
\* result values of its rows and the number of its rows.
StoredResultsOf(inspectionId) ==
    [c \in {components[k] : k \in 1..Len(components)} |->
        LET rows == {r \in getComponentCalculationsByInspectionId(inspectionId) :
                        r.componentType = c}
        IN  [values |-> {ResultValues(r) : r \in rows},
             count |-> CountRows(rows, componentCalculations)]]

\* After the loop: one notification when a component was critical, and the
\* mutation returns.
RecalcNotify(p) ==
    /\ pc[p] = "notify"
    /\ notifications' =
           IF Len(criticalComponents[p]) > 0
           THEN Append(notifications,
                    [caller |-> p, run |-> runNo[p],
                     vessel |-> IF inspection[p].vesselTagNumber = "" THEN "Unknown"
                                ELSE inspection[p].vesselTagNumber,
                     components |-> criticalComponents[p]])
           ELSE notifications
    /\ EndRun(p, "success")
    /\ completed' = [completed EXCEPT ![arg[p]] = @ + 1]
    /\ firstResults' = IF completed[arg[p]] = 0 /\ arg[p] \notin overlapped
                       THEN [firstResults EXCEPT ![arg[p]] = StoredResultsOf(arg[p])]
                       ELSE firstResults
    /\ UNCHANGED <<dbVars, arg, inspection, report, readings, evaluated,
                   criticalComponents, runNo, runs, overlapped, call>>

-----------------------------------------------------------------------------
(* The database the callers work on                                        *)

\* Inspection 1: 150 psi, 48 in, 20000 psi, E = 0.85, nominal 0.500 in,
\* inspected four years (1461 days) after the previous inspection.
\* Inspection 2: mostly defaults, hemispherical heads, no dates.
\* Inspection 3: every optional column NULL, and no report.
InspectionRows ==
    << [id |-> 1, vesselTagNumber |-> "V-101",
        designPressure |-> Int2Rat(150), designTemperature |-> Int2Rat(300),
        insideDiameter |-> Str(48, 0), allowableStress |-> Int2Rat(20000),
        jointEfficiency |-> Str(85, 2), nominalThickness |-> Str(500, 3),
        headType |-> "", inspectionDate |-> 1461, previousInspectionDate |-> 0],
       [id |-> 2, vesselTagNumber |-> "",
        designPressure |-> Int2Rat(100), designTemperature |-> Undefined,
        insideDiameter |-> NullStr, allowableStress |-> Undefined,
        jointEfficiency |-> NullStr, nominalThickness |-> NullStr,
        headType |-> "hemispherical", inspectionDate |-> 1461,
        previousInspectionDate |-> NullDate],
       [id |-> 3, vesselTagNumber |-> "V-303",
        designPressure |-> Undefined, designTemperature |-> Undefined,
        insideDiameter |-> NullStr, allowableStress |-> Undefined,
        jointEfficiency |-> NullStr, nominalThickness |-> NullStr,
        headType |-> "", inspectionDate |-> NullDate,
        previousInspectionDate |-> NullDate] >>

\* Inspection 1 has two reports, inspection 2 one, inspection 3 none.
ReportRows ==
    << [id |-> 1, inspectionId |-> 1], [id |-> 2, inspectionId |-> 2],
       [id |-> 3, inspectionId |-> 1] >>

Reading(id, inspectionId, componentType, actual, t1, previous) ==
    [id |-> id, inspectionId |-> inspectionId, componentType |-> componentType,
     actualThickness |-> actual, tml1 |-> t1, tml2 |-> NullStr, tml3 |-> NullStr,
     tml4 |-> NullStr, previousThickness |-> previous]

\* The reading sets the model starts from. In the first the shell of
\* inspection 1 has 1.98 years left and its east head is below minimum; in
\* the second the shell has 1.74 years left and the heads are sound; its
\* west head has angle readings below the stored actual thickness, and the
\* shell of inspection 2 has lost 0.020 in since its previous reading.
ReadingWorlds ==
    { << Reading(1, 1, "shell", Str(308, 3), Str(310, 3), Str(320, 3)),
         Reading(2, 1, "shell", NullStr, Str(350, 3), NullStr),
         Reading(3, 1, "east_head", Str(200, 3), NullStr, Str(250, 3)),
         Reading(4, 1, "", Str(400, 3), NullStr, Str(0, 0)),
         Reading(5, 2, "shell", Str(480, 3), NullStr, Str(490, 3)),
         Reading(6, 1, "nozzle", Str(100, 3), NullStr, Str(100, 3)) >>,
      << Reading(1, 1, "shell", Str(300, 3), NullStr, Str(320, 3)),
         Reading(2, 1, "east_head", Str(450, 3), NullStr, Str(460, 3)),
         [Reading(3, 1, "west_head", Str(45, 2), Str(440, 3), NullStr)
              EXCEPT !.tml3 = Str(430, 3)],
         Reading(4, 2, "shell", Str(480, 3), NullStr, Str(500, 3)) >> }

\* The inspections at the limits: inspection 2 at a design pressure of
\* 30000 psi, above what its shell sustains at any thickness (0.6 P > S E
\* = 17000), and inspected on the day of its previous inspection.
InspectionRowsAtLimits ==
    << InspectionRows[1],
       [InspectionRows[2] EXCEPT !.designPressure = Int2Rat(30000),
                                 !.previousInspectionDate = 1461],
       InspectionRows[3] >>

\* The databases the model starts from: the inspections with the first
\* set of readings, and the inspections at the limits with the second.
Worlds ==
    { [inspections |-> InspectionRows,
       tmlReadings |-> CHOOSE r \in ReadingWorlds : Len(r) = 6],
      [inspections |-> InspectionRowsAtLimits,
       tmlReadings |-> CHOOSE r \in ReadingWorlds : Len(r) = 4] }

\* The inspection ids a caller may pass; 4 names no inspection.
InspectionIds == {1, 2, 3, 4}

NoCall == [fn |-> "none", args |-> <<>>, ret |-> Zero]

InitRuns ==
    /\ notifications = <<>>
    /\ pc = [p \in Callers |-> "idle"]
    /\ arg = [p \in Callers |-> 0]
    /\ inspection = [p \in Callers |-> NoRow]
    /\ report = [p \in Callers |-> NoRow]
    /\ readings = [p \in Callers |-> <<>>]
    /\ evaluated = [p \in Callers |-> <<>>]
    /\ criticalComponents = [p \in Callers |-> <<>>]
    /\ response = [p \in Callers |-> "none"]
    /\ runNo = [p \in Callers |-> 0]
    /\ runs = 0
    /\ completed = [i \in InspectionIds |-> 0]
    /\ overlapped = {}
    /\ firstResults = [i \in InspectionIds |->
                          [c \in {components[k] : k \in 1..Len(components)} |->
                              [values |-> {}, count |-> 0]]]

Init ==
    /\ \E w \in Worlds :
           /\ inspections = w.inspections
           /\ tmlReadings = w.tmlReadings
    /\ professionalReports = ReportRows
    /\ componentCalculations = [r \in {} |-> 0]
    /\ materialStressValues = <<>>
    /\ InitRuns
    /\ call = NoCall

Next ==
    \/ \E p \in Callers, i \in InspectionIds : RecalcGetInspection(p, i)
    \/ \E p \in Callers : RecalcGetReport(p)
    \/ \E p \in Callers : RecalcDelete(p)
    \/ \E p \in Callers : RecalcGetTml(p)
    \/ \E p \in Callers : RecalcComponent(p)
    \/ \E p \in Callers : RecalcNotify(p)

Spec == Init /\ [][Next]_vars

\* One turn of the loop in which the insert rejects (the connection is
\* lost, the statement fails): the component has been evaluated and noted,
\* no row is inserted, and the error leaves the mutation, which has no
\* handler and no transaction around its writes.
RecalcCreateThrows(p) ==
    /\ pc[p] = "component"
    /\ LET k == Len(evaluated[p]) + 1
           componentType == components[k]
           input == ComponentInput(inspection[p], readings[p], componentType)
           calcResult == performComponentCalculations(input)
       IN  /\ evaluated' = [evaluated EXCEPT ![p] =
                  Append(@, [componentType |-> componentType, input |-> input])]
           /\ criticalComponents' = [criticalComponents EXCEPT ![p] =
                  IF IsCritical(calcResult) THEN Append(@, componentType) ELSE @]
    /\ EndRun(p, "insert failed")
    /\ UNCHANGED <<dbVars, notifications, arg, inspection, report, readings, runNo, runs,
                   completed, overlapped, firstResults, call>>

\* The callers' runs with inserts that may fail.
NextFail ==
    \/ Next
    \/ \E p \in Callers : RecalcCreateThrows(p)

SpecFail == Init /\ [][NextFail]_vars

-----------------------------------------------------------------------------
(* The formula library called on its own: one call, on inputs drawn from   *)
(* the sets below                                                          *)

\* The bounds of the input ranges: thicknesses up to MaxThickness
\* twentieths of an inch, spans up to MaxSpan years, rates up to MaxRate
\* thousandths of an inch per year, lives up to MaxLife half years.
MaxThickness == 10

MaxSpan == 6

MaxRate == 5

MaxLife == 42

Thicknesses ==
    {Rat(k, 1000) : k \in {180, 375, 399}} \cup {Rat(k, 20) : k \in 0..MaxThickness}

TimeSpans == {Int2Rat(k) : k \in -1..MaxSpan} \cup {Int2Rat(25)}

Rates ==
    {Rat(k, 10000) : k \in {-50, 2, 250}} \cup {Rat(k, 1000) : k \in -1..MaxRate}

Lives == {Rat(k, 2) : k \in -2..MaxLife} \cup {Rat(k, 10) : k \in {39, 199, 201, 9990}}

\* Pressures up to MaxPressure * 50 psi, and the pressures at which the
\* denominators vanish (25000, 150000) or are negative (400000) for a
\* stress of 15000 psi and a joint efficiency of 1.
MaxPressure == 6

\* Radii up to MaxRadius feet.
MaxRadius == 4

Pressures ==
    {Int2Rat(k) : k \in {0, 25000, 150000, 400000}}
        \cup {Int2Rat(50 * k) : k \in 1..MaxPressure}

Radii == {Int2Rat(12 * k) : k \in 0..MaxRadius}

Stresses == {Int2Rat(k) : k \in {0, 15000, 17500, 20000}}

Efficiencies == {Rat(7, 10), Rat(85, 100), Int2Rat(1)}

\* The optional knuckle radius of a torispherical head.
KnuckleRadii == {Undefined, Int2Rat(3)}

\* The radii and diameters the MAWP functions are called with.
MAWPRadii == Radii \cup {Rat(-1, 10), Int2Rat(-12)}

\* The CalculationInputs performComponentCalculations is called with.
CalculationInputs ==
    [designPressure : {Int2Rat(150), Int2Rat(400000)},
     designTemperature : {Int2Rat(300)},
     insideDiameter : {Zero, Int2Rat(48)},
     allowableStress : {Int2Rat(20000)},
     jointEfficiency : {Rat(85, 100), Int2Rat(1)},
     actualThickness : {Rat(200, 1000), Rat(308, 1000), Rat(375, 1000)},
     previousThickness : {Undefined, Rat(3751, 10000), Rat(400, 1000)},
     nominalThickness : {Undefined, Rat(500, 1000)},
     timeSpan : {Undefined, Zero, Int2Rat(-1), Int2Rat(4)},
     initialThickness : {Undefined, Rat(3751, 10000)},
     totalTimeSpan : {Undefined, Int2Rat(25)},
     componentType : {"shell", "head", "nozzle"},
     headType : {"ellipsoidal", "torispherical", "hemispherical"}]

CallShortTermCorrosionRate ==
    /\ call = NoCall
    /\ \E previous \in Thicknesses, actual \in Thicknesses, span \in TimeSpans :
           call' = [fn |-> "calculateShortTermCorrosionRate",
                    args |-> <<previous, actual, span>>,
                    ret |-> calculateShortTermCorrosionRate(previous, actual, span)]
    /\ UNCHANGED <<dbVars, runVars>>

CallLongTermCorrosionRate ==
    /\ call = NoCall
    /\ \E initial \in Thicknesses, actual \in Thicknesses, span \in TimeSpans :
           call' = [fn |-> "calculateLongTermCorrosionRate",
                    args |-> <<initial, actual, span>>,
                    ret |-> calculateLongTermCorrosionRate(initial, actual, span)]
    /\ UNCHANGED <<dbVars, runVars>>

CallRemainingLife ==
    /\ call = NoCall
    /\ \E actual \in Thicknesses, minimum \in Thicknesses \cup {Infinity}, rate \in Rates :
           call' = [fn |-> "calculateRemainingLife",
                    args |-> <<actual, minimum, rate>>,
                    ret |-> calculateRemainingLife(actual, minimum, rate)]
    /\ UNCHANGED <<dbVars, runVars>>

CallNextInspectionInterval ==
    /\ call = NoCall
    /\ \E life \in Lives :
           call' = [fn |-> "calculateNextInspectionInterval",
                    args |-> <<life>>,
                    ret |-> calculateNextInspectionInterval(life)]
    /\ UNCHANGED <<dbVars, runVars>>

CallPerformComponentCalculations ==
    /\ call = NoCall
    /\ \E input \in CalculationInputs :
           call' = [fn |-> "performComponentCalculations",
                    args |-> <<input>>,
                    ret |-> performComponentCalculations(input)]
    /\ UNCHANGED <<dbVars, runVars>>

CallShellMinimumThickness ==
    /\ call = NoCall
    /\ \E P \in Pressures, R \in Radii, S \in Stresses, E \in Efficiencies :
           call' = [fn |-> "calculateShellMinimumThickness",
                    args |-> <<P, R, S, E>>,
                    ret |-> calculateShellMinimumThickness(P, R, S, E)]
    /\ UNCHANGED <<dbVars, runVars>>

CallEllipsoidalHeadMinimumThickness ==
    /\ call = NoCall
    /\ \E P \in Pressures, D \in Radii, S \in Stresses, E \in Efficiencies :
           call' = [fn |-> "calculateEllipsoidalHeadMinimumThickness",
                    args |-> <<P, D, S, E>>,
                    ret |-> calculateEllipsoidalHeadMinimumThickness(P, D, S, E)]
    /\ UNCHANGED <<dbVars, runVars>>

CallTorisphericalHeadMinimumThickness ==
    /\ call = NoCall
    /\ \E P \in Pressures, L \in Radii, S \in Stresses, E \in Efficiencies,
          r \in KnuckleRadii :
           call' = [fn |-> "calculateTorisphericalHeadMinimumThickness",
                    args |-> <<P, L, S, E, r>>,
                    ret |-> calculateTorisphericalHeadMinimumThickness(P, L, S, E, r)]
    /\ UNCHANGED <<dbVars, runVars>>

CallHemisphericalHeadMinimumThickness ==
    /\ call = NoCall
    /\ \E P \in Pressures, R \in Radii, S \in Stresses, E \in Efficiencies :
           call' = [fn |-> "calculateHemisphericalHeadMinimumThickness",
                    args |-> <<P, R, S, E>>,
                    ret |-> calculateHemisphericalHeadMinimumThickness(P, R, S, E)]
    /\ UNCHANGED <<dbVars, runVars>>

CallShellMAWP ==
    /\ call = NoCall
    /\ \E t \in Thicknesses, R \in MAWPRadii, S \in Stresses, E \in Efficiencies :
           call' = [fn |-> "calculateShellMAWP",
                    args |-> <<t, R, S, E>>,
                    ret |-> calculateShellMAWP(t, R, S, E)]
    /\ UNCHANGED <<dbVars, runVars>>

CallEllipsoidalHeadMAWP ==
    /\ call = NoCall
    /\ \E t \in Thicknesses, D \in MAWPRadii, S \in Stresses, E \in Efficiencies :
           call' = [fn |-> "calculateEllipsoidalHeadMAWP",
                    args |-> <<t, D, S, E>>,
                    ret |-> calculateEllipsoidalHeadMAWP(t, D, S, E)]
    /\ UNCHANGED <<dbVars, runVars>>

CallHemisphericalHeadMAWP ==
    /\ call = NoCall
    /\ \E t \in Thicknesses, R \in MAWPRadii, S \in Stresses, E \in Efficiencies :
           call' = [fn |-> "calculateHemisphericalHeadMAWP",
                    args |-> <<t, R, S, E>>,
                    ret |-> calculateHemisphericalHeadMAWP(t, R, S, E)]
    /\ UNCHANGED <<dbVars, runVars>>

\* A nozzle size token is a sequence of characters.
DigitChars == <<"0", "1", "2", "3", "4", "5", "6", "7", "8", "9">>

IsDigit(c) == \E d \in 1..10 : DigitChars[d] = c

DigitOf(c) == (CHOOSE d \in 1..10 : DigitChars[d] = c) - 1

\* chars.replace(c, ''): the first occurrence of c is removed.
RECURSIVE RemoveFirst(_, _)
RemoveFirst(chars, c) ==
    IF Len(chars) = 0 THEN chars
    ELSE IF Head(chars) = c THEN Tail(chars)
    ELSE <<Head(chars)>> \o RemoveFirst(Tail(chars), c)

\* parseFloat of a character sequence without sign or exponent: the
\* longest prefix that is a decimal numeral, NaN when it has no digit.
RECURSIVE ScanNumeral(_, _, _, _, _)
ScanNumeral(chars, digits, scale, seenPoint, seenDigit) ==
    IF Len(chars) > 0 /\ IsDigit(Head(chars))
    THEN ScanNumeral(Tail(chars), 10 * digits + DigitOf(Head(chars)),
                     IF seenPoint THEN scale + 1 ELSE scale, seenPoint, TRUE)
    ELSE IF Len(chars) > 0 /\ Head(chars) = "." /\ ~seenPoint
    THEN ScanNumeral(Tail(chars), digits, scale, TRUE, seenDigit)
    ELSE IF seenDigit THEN Rat(digits, Pow10(scale)) ELSE NaN

parseFloatChars(chars) == ScanNumeral(chars, 0, 0, FALSE, FALSE)

\* odTable: the outside diameter by nominal pipe size, in thousandths of an
\* inch by size in hundredths.
odTable ==
    { <<50, 840>>, <<75, 1050>>, <<100, 1315>>, <<125, 1660>>, <<150, 1900>>,
      <<200, 2375>>, <<250, 2875>>, <<300, 3500>>, <<400, 4500>>, <<600, 6625>>,
      <<800, 8625>>, <<1000, 10750>>, <<1200, 12750>>, <<1400, 14000>>,
      <<1600, 16000>>, <<1800, 18000>>, <<2000, 20000>>, <<2400, 24000>>,
      <<3000, 30000>>, <<3600, 36000>> }

\* odTable[sizeNum]: undefined for a size that is no key of the table.
odTableAt(sizeNum) ==
    LET found == {e \in odTable : Rat(e[1], 100) = sizeNum}
    IN  IF found = {} THEN Undefined
        ELSE Rat((CHOOSE e \in found : TRUE)[2], 1000)

\* calculateNozzleMinimumThickness with the approximation for every size.
calculateNozzleMinimumThicknessNoTable(pressure, nozzleSize, allowableStress, jointEfficiency) ==
    LET E == IF jointEfficiency = Undefined THEN Int2Rat(1) ELSE jointEfficiency
        sizeNum == parseFloatChars(RemoveFirst(nozzleSize, "\""))
        od == RatAdd(sizeNum, Rat(375, 1000))
        radius == RatDiv(od, Int2Rat(2))
    IN  calculateShellMinimumThickness(pressure, radius, allowableStress, E)

calculateNozzleMinimumThickness(pressure, nozzleSize, allowableStress, jointEfficiency) ==
    LET E == IF jointEfficiency = Undefined THEN Int2Rat(1) ELSE jointEfficiency
        sizeNum == parseFloatChars(RemoveFirst(nozzleSize, "\""))
        od == OrElse(odTableAt(sizeNum), RatAdd(sizeNum, Rat(375, 1000)))
        radius == RatDiv(od, Int2Rat(2))
    IN  calculateShellMinimumThickness(pressure, radius, allowableStress, E)

\* The size tokens the nozzle function is called with: sizes of the table
\* and sizes absent from it, each without and with an inch mark, and a
\* token that is no number.
NozzleNumerals ==
    { <<"2">>, <<"0", ".", "7", "5">>, <<"1", ".", "5">>, <<"3", "6">>, <<"2", ".", "0">>,
      <<"5">>, <<"3", ".", "5">>, <<"4", "0">>, <<"0">>, <<".", "5">> }

NozzleSizes ==
    NozzleNumerals \cup {n \o <<"\"">> : n \in NozzleNumerals} \cup {<<"N", "P", "S">>}

CallNozzleMinimumThickness ==
    /\ call = NoCall
    /\ \E P \in {Int2Rat(150), Int2Rat(25000)}, size \in NozzleSizes,
          S \in {Int2Rat(15000), Int2Rat(20000)},
          E \in {Undefined, Rat(85, 100), Int2Rat(1)} :
           call' = [fn |-> "calculateNozzleMinimumThickness",
                    args |-> <<P, size, S, E>>,
                    ret |-> calculateNozzleMinimumThickness(P, size, S, E)]
    /\ UNCHANGED <<dbVars, runVars>>

InitCalc ==
    /\ inspections = <<>>
    /\ professionalReports = <<>>
    /\ tmlReadings = <<>>
    /\ componentCalculations = [r \in {} |-> 0]
    /\ materialStressValues = <<>>
    /\ InitRuns
    /\ call = NoCall

NextCalc ==
    \/ CallShortTermCorrosionRate
    \/ CallLongTermCorrosionRate
    \/ CallRemainingLife
    \/ CallNextInspectionInterval
    \/ CallPerformComponentCalculations
    \/ CallShellMinimumThickness
    \/ CallEllipsoidalHeadMinimumThickness
    \/ CallTorisphericalHeadMinimumThickness
    \/ CallHemisphericalHeadMinimumThickness
    \/ CallShellMAWP
    \/ CallEllipsoidalHeadMAWP
    \/ CallHemisphericalHeadMAWP
    \/ CallNozzleMinimumThickness

SpecCalc == InitCalc /\ [][NextCalc]_vars

-----------------------------------------------------------------------------
(* server/db.ts: getMaterialStressValue, and the lookup called on its own  *)

\* The result `null`.
Null == [null |-> TRUE]

\* The row of `rows` with the greatest (sign = -1) or the least (sign = 1)
\* temperature, the first such row in table order: orderBy(...).limit(1).
FirstByTemperature(rows, sign) ==
    LET best == CHOOSE k \in 1..Len(rows) :
                    \A j \in 1..Len(rows) :
                        \/ sign * rows[k].temperature < sign * rows[j].temperature
                        \/ (rows[k].temperature = rows[j].temperature /\ k <= j)
    IN  rows[best]

\* getMaterialStressValue with the nearest tabulated point given up for
\* `null` when the temperature is outside the table.
getMaterialStressValueNullOutside(materialSpec, temperature) ==
    LET lowerResult == SelectSeq(materialStressValues, LAMBDA r :
                           r.materialSpec = materialSpec /\ RatLe(Int2Rat(r.temperature), temperature))
        upperResult == SelectSeq(materialStressValues, LAMBDA r :
                           r.materialSpec = materialSpec /\ RatLe(temperature, Int2Rat(r.temperature)))
    IN  IF Len(lowerResult) = 0 \/ Len(upperResult) = 0 THEN Null
        ELSE LET lower == FirstByTemperature(lowerResult, -1)
                 upper == FirstByTemperature(upperResult, 1)
             IN  IF lower.temperature = upper.temperature
                 THEN Int2Rat(lower.allowableStress)
                 ELSE RoundTo(
                          RatAdd(Int2Rat(lower.allowableStress),
                                 RatMul(RatDiv(RatSub(temperature, Int2Rat(lower.temperature)),
                                               Int2Rat(upper.temperature - lower.temperature)),
                                        Int2Rat(upper.allowableStress - lower.allowableStress))),
                          1)

\* The allowable stress of a material at a temperature: the tabulated
\* point at or next below and the one at or next above, interpolated and
\* rounded to the whole psi; one bound's stress when only one exists.
getMaterialStressValue(materialSpec, temperature) ==
    LET lowerResult == SelectSeq(materialStressValues, LAMBDA r :
                           r.materialSpec = materialSpec /\ RatLe(Int2Rat(r.temperature), temperature))
        upperResult == SelectSeq(materialStressValues, LAMBDA r :
                           r.materialSpec = materialSpec /\ RatLe(temperature, Int2Rat(r.temperature)))
    IN  IF Len(lowerResult) = 0 /\ Len(upperResult) = 0 THEN Null
        ELSE IF Len(lowerResult) = 0
        THEN Int2Rat(FirstByTemperature(upperResult, 1).allowableStress)
        ELSE IF Len(upperResult) = 0
        THEN Int2Rat(FirstByTemperature(lowerResult, -1).allowableStress)
        ELSE LET lower == FirstByTemperature(lowerResult, -1)
                 upper == FirstByTemperature(upperResult, 1)
             IN  IF lower.temperature = upper.temperature
                 THEN Int2Rat(lower.allowableStress)
                 ELSE RoundTo(
                          RatAdd(Int2Rat(lower.allowableStress),
                                 RatMul(RatDiv(RatSub(temperature, Int2Rat(lower.temperature)),
                                               Int2Rat(upper.temperature - lower.temperature)),
                                        Int2Rat(upper.allowableStress - lower.allowableStress))),
                          1)

StressRow(id, materialSpec, temperature, allowableStress) ==
    [id |-> id, materialSpec |-> materialSpec, temperature |-> temperature,
     allowableStress |-> allowableStress]

\* The stress tables the lookup is run against: an empty one; one with a
\* falling and a single-point material; one whose points make the
\* interpolation land between whole psi, and rise with temperature.
StressTables ==
    { <<>>,
      << StressRow(1, "SA-516-70", 100, 20000), StressRow(2, "SA-240-304", 200, 18000),
         StressRow(3, "SA-516-70", 500, 17500), StressRow(4, "SA-516-70", 300, 19000) >>,
      << StressRow(1, "SA-516-70", 200, 15000), StressRow(2, "SA-516-70", 203, 15010),
         StressRow(3, "SA-516-70", 205, 15011), StressRow(4, "SA-240-304", 150, 16000),
         StressRow(5, "SA-240-304", 250, 16700) >> }

\* Temperatures up to MaxTemperature * 50 degrees Fahrenheit.
MaxTemperature == 12

Temperatures ==
    {Int2Rat(50 * k) : k \in 0..MaxTemperature}
        \cup {Int2Rat(k) : k \in 201..204} \cup {Rat(4005, 10)}

\* The queried materials; SA-106-B is in no table.
Materials == {"SA-516-70", "SA-240-304", "SA-106-B"}

CallGetMaterialStressValue ==
    /\ call = NoCall
    /\ \E materialSpec \in Materials, temperature \in Temperatures :
           call' = [fn |-> "getMaterialStressValue",
                    args |-> <<materialSpec, temperature>>,
                    ret |-> getMaterialStressValue(materialSpec, temperature)]
    /\ UNCHANGED <<dbVars, runVars>>

InitStress ==
    /\ inspections = <<>>
    /\ professionalReports = <<>>
    /\ tmlReadings = <<>>
    /\ componentCalculations = [r \in {} |-> 0]
    /\ materialStressValues \in StressTables
    /\ InitRuns
    /\ call = NoCall

NextStress == CallGetMaterialStressValue

SpecStress == InitStress /\ [][NextStress]_vars

-----------------------------------------------------------------------------
(* Properties of the formula library, checked under SpecCalc               *)

Unsafe == "UNSAFE - BELOW MINIMUM THICKNESS"

Critical == "CRITICAL - Less than 2 years remaining life"

Warning == "WARNING - Less than 5 years remaining life"

Acceptable == "ACCEPTABLE"

\* C5: performComponentCalculations classifies by a strict ordered rule on
\* the values it computed: the below-minimum status when the actual
\* thickness is less than the minimum thickness, whatever the remaining
\* life; otherwise CRITICAL when the remaining life is under 2 years;
\* otherwise WARNING when it is under 5; otherwise ACCEPTABLE. Every input
\* gets exactly one of the four.
C5_StatusFollowsOrderedRule ==
    call.fn = "performComponentCalculations" =>
        LET input == call.args[1]
            below == RatLt(input.actualThickness, MinimumThicknessOf(input))
            life == RemainingLifeOf(input)
            status == call.ret.statusMessage
        IN  /\ status \in {Unsafe, Critical, Warning, Acceptable}
            /\ below => status = Unsafe
            /\ (~below /\ RatLt(life, Int2Rat(2))) => status = Critical
            /\ (~below /\ RatLe(Int2Rat(2), life) /\ RatLt(life, Int2Rat(5)))
                   => status = Warning
            /\ (~below /\ RatLe(Int2Rat(5), life)) => status = Acceptable

\* A component above its minimum thickness with under two years left.
C5_Witness ==
    /\ call.fn = "performComponentCalculations"
    /\ ~RatLt(call.args[1].actualThickness, MinimumThicknessOf(call.args[1]))
    /\ RatLt(RemainingLifeOf(call.args[1]), Int2Rat(2))
    /\ call.ret.statusMessage = Critical

\* C6: for all inputs, zero or negative deltas and spans included, the
\* short-term and the long-term corrosion rate are never less than 0.001.
C6_RatesNeverBelowNominal ==
    call.fn \in {"calculateShortTermCorrosionRate", "calculateLongTermCorrosionRate"}
        => RatLe(Rat(1, 1000), call.ret)

\* C7: the corrosionRate, corrosionRateLT and corrosionRateST of every
\* CalculationResult (the values rounded to four decimals) are strictly
\* greater than zero.
C7_ReportedRatesPositive ==
    call.fn = "performComponentCalculations" =>
        /\ RatLt(Zero, call.ret.corrosionRate)
        /\ RatLt(Zero, call.ret.corrosionRateLT)
        /\ RatLt(Zero, call.ret.corrosionRateST)

\* C8: calculateRemainingLife returns 0 whenever the actual thickness is at
\* or below the minimum thickness, for every corrosion rate, positive, zero
\* or negative.
C8_ZeroLifeAtOrBelowMinimum ==
    (call.fn = "calculateRemainingLife" /\ RatLe(call.args[1], call.args[2]))
        => call.ret = Zero

\* C9: calculateRemainingLife returns 999 for every call whose corrosion
\* rate is <= 0, whatever the actual and minimum thickness; for a rate > 0
\* and an actual thickness above the minimum it returns
\* (actual - minimum) / rate, which is strictly decreasing in the rate.
C9_RemainingLifeSentinelAndQuotient ==
    call.fn = "calculateRemainingLife" =>
        LET actual == call.args[1]
            minimum == call.args[2]
            rate == call.args[3]
        IN  /\ RatLe(rate, Zero) => call.ret = Int2Rat(999)
            /\ (RatLt(Zero, rate) /\ RatLt(minimum, actual)) =>
                   /\ call.ret = RatDiv(RatSub(actual, minimum), rate)
                   /\ \A faster \in Rates :
                          RatLt(rate, faster) =>
                              RatLt(calculateRemainingLife(actual, minimum, faster), call.ret)

\* A call with a non-positive rate at or below the minimum thickness.
C9_Witness ==
    /\ call.fn = "calculateRemainingLife"
    /\ RatLe(call.args[3], Zero)
    /\ RatLe(call.args[1], call.args[2])
    /\ call.ret = Int2Rat(999)

\* C10: calculateNextInspectionInterval(x) is min(x / 2, 10) for x > 0 and
\* 0 for x <= 0, so it lies in [0, 10] and never exceeds half of a positive
\* remaining life.
C10_IntervalIsCappedHalfLife ==
    call.fn = "calculateNextInspectionInterval" =>
        LET x == call.args[1]
            half == RatDiv(x, Int2Rat(2))
        IN  /\ RatLt(Zero, x) =>
                   /\ call.ret = (IF RatLt(Int2Rat(10), half) THEN Int2Rat(10) ELSE half)
                   /\ RatLe(call.ret, half)
            /\ RatLe(x, Zero) => call.ret = Zero
            /\ RatLe(Zero, call.ret)
            /\ RatLe(call.ret, Int2Rat(10))

\* A remaining life whose half exceeds the ceiling.
C10_Witness ==
    /\ call.fn = "calculateNextInspectionInterval"
    /\ RatLt(Int2Rat(20), call.args[1])
    /\ call.ret = Int2Rat(10)

-----------------------------------------------------------------------------
(* Properties of calculation.recalculate, checked under Spec               *)

\* The stored results of one component of one inspection, with multiplicity.
ResultCount(inspectionId, componentType) ==
    CountRows({r \in getComponentCalculationsByInspectionId(inspectionId) :
                   r.componentType = componentType},
              componentCalculations)

\* Exactly one stored result for each canonical component, and no other.
OneResultPerComponent(inspectionId) ==
    /\ \A k \in 1..Len(components) : ResultCount(inspectionId, components[k]) = 1
    /\ CountRows(getComponentCalculationsByInspectionId(inspectionId),
                 componentCalculations) = Len(components)

HasReport(inspectionId) == getProfessionalReportByInspectionId(inspectionId) # NoRow

\* No run for the inspection is under way.
Quiet(inspectionId) == \A p \in Callers : ~(Active(p) /\ arg[p] = inspectionId)

\* C1: after any sequence of completed, non-overlapping recalculate runs
\* for an inspection that has a professional report, the stored component
\* calculations of that inspection hold exactly one result for each of
\* shell, east_head and west_head: each run's results replace the previous
\* run's.
C1_SequentialRunsReplace ==
    \A i \in InspectionIds :
        (completed[i] > 0 /\ HasReport(i) /\ i \notin overlapped /\ Quiet(i))
            => OneResultPerComponent(i)

\* Two runs for the same inspection, one after the other, both completed.
C1_Witness ==
    \E i \in InspectionIds :
        /\ completed[i] >= 2
        /\ HasReport(i)
        /\ i \notin overlapped
        /\ Quiet(i)
        /\ OneResultPerComponent(i)

\* C2: the delete-then-recreate write of a run is atomic per inspection:
\* once concurrent runs for the same inspection have all finished, the
\* store holds exactly one result per canonical component.
C2_ConcurrentRunsReplace ==
    \A i \in InspectionIds :
        (completed[i] > 0 /\ HasReport(i) /\ Quiet(i)) => OneResultPerComponent(i)

\* The notifications sent by one run.
SentBy(p, run) ==
    SelectSeq(notifications, LAMBDA m : m.caller = p /\ m.run = run)

\* C3: a run sends the criticality notification at most once, and only
\* after all three canonical components have been evaluated and their
\* results persisted, never between two components of the run.
C3_OneNotificationAfterTheLoop ==
    \A p \in Callers :
        /\ \A run \in 1..runs : Len(SentBy(p, run)) <= 1
        /\ Len(SentBy(p, runNo[p])) > 0 =>
               /\ pc[p] = "idle"
               /\ [k \in 1..Len(evaluated[p]) |-> evaluated[p][k].componentType] = components

\* A run that has sent its notification.
C3_Witness ==
    \E p \in Callers :
        /\ Len(SentBy(p, runNo[p])) = 1
        /\ Len(evaluated[p]) = Len(components)
        /\ response[p] = "success"

\* The components of a run that are below minimum thickness or have a
\* remaining life under 2 years, in the order of their evaluation.
BelowMinimumOrUnderTwoYears(p) ==
    MapSeq(SelectSeq(evaluated[p], LAMBDA e :
                \/ IsBelowMinimumOf(e.input)
                \/ RatLt(RemainingLifeOf(e.input), Int2Rat(2))),
           LAMBDA e : e.componentType)

\* C4: at the end of a run the alert names exactly the canonical
\* components that are below minimum thickness or whose remaining life is
\* less than 2 years: each of them, no other, and no alert without one.
C4_AlertNamesTheCriticalComponents ==
    \A p \in Callers :
        response[p] = "success" =>
            LET due == BelowMinimumOrUnderTwoYears(p)
                sent == SentBy(p, runNo[p])
            IN  IF Len(due) = 0 THEN Len(sent) = 0
                ELSE Len(sent) = 1 /\ sent[1].components = due

-----------------------------------------------------------------------------
(* Further properties of the formula library, checked under SpecCalc       *)

LongTermReason == "Long-term rate is higher - indicates sustained corrosion"

ShortTermReason == "Short-term rate is higher - indicates accelerated recent corrosion"

\* C11: in performComponentCalculations the governing corrosion rate is
\* the greater of the long-term and the short-term rate; the governing tag
\* is LT whenever LT >= ST, a tie included, and ST only when ST > LT; the
\* rationale string is the one of the chosen tag.
C11_GoverningRateIsTheGreater ==
    call.fn = "performComponentCalculations" =>
        LET rates == CorrosionRatesOf(call.args[1])
            lt == rates.corrosionRateLT
            st == rates.corrosionRateST
            greater == IF RatLt(lt, st) THEN st ELSE lt
        IN  /\ call.ret.corrosionRate = RoundTo(greater, 10000)
            /\ RatLe(st, lt) =>
                   /\ call.ret.governingRate = "LT"
                   /\ call.ret.governingRateReason = LongTermReason
            /\ RatLt(lt, st) =>
                   /\ call.ret.governingRate = "ST"
                   /\ call.ret.governingRateReason = ShortTermReason

\* Two equal rates above the floor, governed by the long-term one.
C11_Witness ==
    /\ call.fn = "performComponentCalculations"
    /\ LET rates == CorrosionRatesOf(call.args[1])
       IN  /\ rates.corrosionRateLT = rates.corrosionRateST
           /\ RatLt(MIN_NOMINAL_RATE, rates.corrosionRateLT)
    /\ call.ret.governingRate = "LT"

-----------------------------------------------------------------------------
(* Further properties of calculation.recalculate, checked under Spec       *)

\* The positive numbers among the columns `cols` of the rows `rows`.
PositiveValues(rows, cols) ==
    {v \in {parseFloat(StrOrElse(rows[k][c], Str(0, 0))) :
                k \in 1..Len(rows), c \in cols} : RatLt(Zero, v)}

\* The least member of a non-empty set of numbers.
Least(values) == CHOOSE v \in values : \A w \in values : RatLe(v, w)

\* C12: for each canonical component the actual thickness recalculate
\* feeds to the calculation is the minimum over all of the component's
\* readings and all their angular sub-readings (tml1..tml4 and the actual
\* thickness), and the previous thickness is the minimum over the
\* readings' previous-thickness values.
C12_WorstCaseOverAllSubReadings ==
    \A p \in Callers : \A k \in 1..Len(evaluated[p]) :
        LET e == evaluated[p][k]
            group == GroupOf(readings[p], e.componentType)
            actuals == PositiveValues(group,
                           {"actualThickness", "tml1", "tml2", "tml3", "tml4"})
            previous == PositiveValues(group, {"previousThickness"})
        IN  /\ actuals # {} => e.input.actualThickness = Least(actuals)
            /\ previous # {} => e.input.previousThickness = Least(previous)

\* The rows componentCalculations holds.
StoredRows == {r \in DOMAIN componentCalculations : componentCalculations[r] > 0}

\* The component of a stored row has no reading.
WithoutReadings(r) ==
    Len(GroupOf(getTmlReadingsByInspectionId(r.inspectionId), r.componentType)) = 0

\* The nominal thickness recalculate takes for an inspection: the stored
\* one, 0.5 when the column is empty.
NominalOf(inspectionId) ==
    parseFloat(StrOrElse(getInspectionById(inspectionId).nominalThickness, Str(5, 1)))

\* C13: for a canonical component without readings recalculate uses the
\* vessel's nominal thickness as both the actual and the previous
\* thickness: the stored actualThickness and previousThickness of the
\* component are equal to each other and to the nominal thickness.
C13_NominalWithoutReadings ==
    /\ \A r \in StoredRows :
           WithoutReadings(r) =>
               /\ r.actualThickness = r.previousThickness
               /\ parseFloat(r.actualThickness) = NominalOf(r.inspectionId)
    /\ \A p \in Callers : \A k \in 1..Len(evaluated[p]) :
           LET e == evaluated[p][k]
           IN  Len(GroupOf(readings[p], e.componentType)) = 0 =>
                   /\ e.input.actualThickness = e.input.nominalThickness
                   /\ e.input.previousThickness = e.input.nominalThickness

\* A stored west head of a vessel with a nominal thickness and no west
\* head reading.
C13_Witness ==
    \E r \in StoredRows :
        /\ WithoutReadings(r)
        /\ getInspectionById(r.inspectionId).nominalThickness # NullStr
        /\ r.componentType = "west_head"
        /\ r.previousThickness = toString(NominalOf(r.inspectionId))

-----------------------------------------------------------------------------
(* Properties of the thickness and pressure formulas, checked under        *)
(* SpecCalc                                                                *)

\* SE - 0.6P, the denominator of the shell formula.
ShellDenominator(P, S, E) == RatSub(RatMul(S, E), RatMul(Rat(6, 10), P))

\* 2SE - 0.2P, the denominator of the three head formulas.
HeadDenominator(P, S, E) ==
    RatSub(RatMul(RatMul(Int2Rat(2), S), E), RatMul(Rat(2, 10), P))

HeadMinimumThicknessFunctions ==
    {"calculateEllipsoidalHeadMinimumThickness",
     "calculateTorisphericalHeadMinimumThickness",
     "calculateHemisphericalHeadMinimumThickness"}

\* The denominator of the minimum-thickness call the state holds.
DenominatorOfCall ==
    IF call.fn = "calculateShellMinimumThickness"
    THEN ShellDenominator(call.args[1], call.args[3], call.args[4])
    ELSE HeadDenominator(call.args[1], call.args[3], call.args[4])

\* C14: each minimum-thickness function returns positive infinity whenever
\* its denominator is <= 0 (SE <= 0.6P for the shell, 2SE <= 0.2P for the
\* ellipsoidal, torispherical and hemispherical head), and a finite number
\* whenever the denominator is > 0.
C14_InfinityExactlyOnDegenerateDenominator ==
    call.fn \in HeadMinimumThicknessFunctions \cup {"calculateShellMinimumThickness"} =>
        /\ RatLe(DenominatorOfCall, Zero) => call.ret = Infinity
        /\ RatLt(Zero, DenominatorOfCall) => IsFinite(call.ret)

MAWPFunctions ==
    {"calculateShellMAWP", "calculateEllipsoidalHeadMAWP", "calculateHemisphericalHeadMAWP"}

\* R + 0.6t for the shell, D + 0.2t and R + 0.2t for the heads: the
\* denominator of the MAWP call the state holds.
MAWPDenominatorOfCall ==
    RatAdd(call.args[2],
           RatMul(IF call.fn = "calculateShellMAWP" THEN Rat(6, 10) ELSE Rat(2, 10),
                  call.args[1]))

\* C15: the three MAWP functions return 0 whenever their denominator is
\* <= 0 or the thickness is 0, and never a negative pressure for a
\* non-negative thickness, stress and joint efficiency.
C15_MAWPZeroOnDegenerateInput ==
    call.fn \in MAWPFunctions =>
        /\ (RatLe(MAWPDenominatorOfCall, Zero) \/ call.args[1] = Zero) => call.ret = Zero
        /\ (RatLe(Zero, call.args[1]) /\ RatLe(Zero, call.args[3])
                /\ RatLe(Zero, call.args[4])) => RatLe(Zero, call.ret)

\* A positive thickness over a non-positive denominator.
C15_Witness ==
    /\ call.fn \in MAWPFunctions
    /\ RatLt(Zero, call.args[1])
    /\ RatLe(MAWPDenominatorOfCall, Zero)
    /\ RatLt(Zero, RatMul(call.args[3], call.args[4]))
    /\ call.ret = Zero

-----------------------------------------------------------------------------
(* Properties of getMaterialStressValue, checked under SpecStress          *)

\* The tabulated points of a material.
PointsOf(materialSpec) ==
    {materialStressValues[k] : k \in {j \in 1..Len(materialStressValues) :
                                          materialStressValues[j].materialSpec = materialSpec}}

\* The point of a non-empty set with the greatest, the least temperature.
Hottest(points) == CHOOSE r \in points : \A q \in points : q.temperature <= r.temperature

Coldest(points) == CHOOSE r \in points : \A q \in points : r.temperature <= q.temperature

\* s1 + (T - t1) / (t2 - t1) * (s2 - s1), before rounding.
Interpolated(lower, upper, temperature) ==
    RatAdd(Int2Rat(lower.allowableStress),
           RatMul(RatDiv(RatSub(temperature, Int2Rat(lower.temperature)),
                         Int2Rat(upper.temperature - lower.temperature)),
                  Int2Rat(upper.allowableStress - lower.allowableStress)))

\* C16: getMaterialStressValue(material, T) follows four cases over the
\* material's tabulated points: none, null; points only above or only
\* below T, the stress of the nearest one, unmodified; a point at T, that
\* point's stress; otherwise, between the greatest point below and the
\* least point above, the linear interpolation rounded to the whole psi.
\* The result is never outside the range spanned by the two stresses.
C16_StressLookupFourCases ==
    call.fn = "getMaterialStressValue" =>
        LET T == call.args[2]
            points == PointsOf(call.args[1])
            below == {r \in points : RatLt(Int2Rat(r.temperature), T)}
            above == {r \in points : RatLt(T, Int2Rat(r.temperature))}
            at == {r \in points : Int2Rat(r.temperature) = T}
        IN  /\ points = {} => call.ret = Null
            /\ at # {} => \E r \in at : call.ret = Int2Rat(r.allowableStress)
            /\ (at = {} /\ below = {} /\ above # {}) =>
                   call.ret = Int2Rat(Coldest(above).allowableStress)
            /\ (at = {} /\ above = {} /\ below # {}) =>
                   call.ret = Int2Rat(Hottest(below).allowableStress)
            /\ (at = {} /\ below # {} /\ above # {}) =>
                   LET lower == Hottest(below)
                       upper == Coldest(above)
                       s1 == Int2Rat(lower.allowableStress)
                       s2 == Int2Rat(upper.allowableStress)
                   IN  /\ call.ret = RoundTo(Interpolated(lower, upper, T), 1)
                       /\ RatLe(RatMin(s1, s2), call.ret)
                       /\ RatLe(call.ret, IF RatLt(s1, s2) THEN s2 ELSE s1)

\* An interpolation that lands between two whole psi and is rounded.
C16_Witness ==
    /\ call.fn = "getMaterialStressValue"
    /\ LET T == call.args[2]
           points == PointsOf(call.args[1])
           below == {r \in points : RatLt(Int2Rat(r.temperature), T)}
           above == {r \in points : RatLt(T, Int2Rat(r.temperature))}
       IN  /\ below # {} /\ above # {}
           /\ \A r \in points : Int2Rat(r.temperature) # T
           /\ call.ret # Interpolated(Hottest(below), Coldest(above), T)
           /\ call.ret = RoundTo(Interpolated(Hottest(below), Coldest(above), T), 1)

\* C17: when the material has no tabulated point, or the temperature is
\* below the material's lowest or above its highest tabulated temperature,
\* getMaterialStressValue returns null, not a stress value.
C17_NullOutsideTheTable ==
    call.fn = "getMaterialStressValue" =>
        LET T == call.args[2]
            points == PointsOf(call.args[1])
        IN  (\/ points = {}
             \/ \A r \in points : RatLt(T, Int2Rat(r.temperature))
             \/ \A r \in points : RatLt(Int2Rat(r.temperature), T))
                => call.ret = Null

-----------------------------------------------------------------------------
(* Relations between the formulas, checked under SpecCalc                  *)

\* The shell MAWP at the minimum thickness the state's call returned.
RoundTripOfCall ==
    calculateShellMAWP(call.ret, call.args[2], call.args[3], call.args[4])

\* C18 as written: for all P, R, S, E with SE > 0.6P,
\* calculateShellMAWP(calculateShellMinimumThickness(P, R, S, E), R, S, E)
\* equals P.
C18_RoundTripForAllRadii ==
    (/\ call.fn = "calculateShellMinimumThickness"
     /\ RatLt(Zero, ShellDenominator(call.args[1], call.args[3], call.args[4])))
        => RoundTripOfCall = call.args[1]

\* C18: for all P >= 0, R > 0, S, E with SE > 0.6P,
\* calculateShellMAWP(calculateShellMinimumThickness(P, R, S, E), R, S, E)
\* equals P.
C18_RoundTripForPositiveRadius ==
    (/\ call.fn = "calculateShellMinimumThickness"
     /\ RatLt(Zero, ShellDenominator(call.args[1], call.args[3], call.args[4]))
     /\ RatLe(Zero, call.args[1])
     /\ RatLt(Zero, call.args[2]))
        => RoundTripOfCall = call.args[1]

\* A positive pressure recovered from a positive minimum thickness.
C18_Witness ==
    /\ call.fn = "calculateShellMinimumThickness"
    /\ RatLt(Zero, call.args[1])
    /\ RatLt(Zero, call.args[2])
    /\ IsFinite(call.ret)
    /\ RatLt(Zero, call.ret)
    /\ RoundTripOfCall = call.args[1]

\* The shell minimum thickness moves strictly with each argument around
\* the point of the state's call: up with P and R, down with S and E.
StrictlyMonotoneAtCall ==
    LET P == call.args[1]
        R == call.args[2]
        S == call.args[3]
        E == call.args[4]
        t == call.ret
    IN  /\ \A P2 \in Pressures :
               /\ RatLt(P, P2) => RatLt(t, calculateShellMinimumThickness(P2, R, S, E))
               /\ RatLt(P2, P) => RatLt(calculateShellMinimumThickness(P2, R, S, E), t)
        /\ \A R2 \in Radii :
               /\ RatLt(R, R2) => RatLt(t, calculateShellMinimumThickness(P, R2, S, E))
               /\ RatLt(R2, R) => RatLt(calculateShellMinimumThickness(P, R2, S, E), t)
        /\ \A S2 \in Stresses :
               /\ RatLt(S, S2) => RatLt(calculateShellMinimumThickness(P, R, S2, E), t)
               /\ RatLt(S2, S) => RatLt(t, calculateShellMinimumThickness(P, R, S2, E))
        /\ \A E2 \in Efficiencies :
               /\ RatLt(E, E2) => RatLt(calculateShellMinimumThickness(P, R, S, E2), t)
               /\ RatLt(E2, E) => RatLt(t, calculateShellMinimumThickness(P, R, S, E2))

\* P > 0, R > 0 and SE > 0.6P at the point of the state's call.
PositiveAndSustainableCall ==
    /\ RatLt(Zero, call.args[1])
    /\ RatLt(Zero, call.args[2])
    /\ RatLt(Zero, ShellDenominator(call.args[1], call.args[3], call.args[4]))

ShellThicknessOfCall ==
    calculateShellMinimumThickness(call.args[1], call.args[2], call.args[3], call.args[4])

-----------------------------------------------------------------------------
(* Properties of whole recalculate runs, checked under Spec                *)

\* C21: recalculation is deterministic and idempotent: after two or more
\* runs for an inspection, one after the other, on unchanged inspection
\* data and readings, the store holds per component the same result values
\* (minimum thickness, MAWP, rates, governing tag, remaining life,
\* interval, flag, status), once each, as after the first run.
C21_SecondRunLeavesTheFirstRunsResults ==
    \A i \in InspectionIds :
        (completed[i] >= 1 /\ HasReport(i) /\ i \notin overlapped /\ Quiet(i))
            => StoredResultsOf(i) = firstResults[i]

\* A second run for an inspection has completed after its first, and the
\* store holds results for it.
C21_Witness ==
    \E i \in InspectionIds :
        /\ completed[i] >= 2
        /\ i \notin overlapped
        /\ Quiet(i)
        /\ StoredResultsOf(i) = firstResults[i]
        /\ \A k \in 1..Len(components) :
               /\ firstResults[i][components[k]].count = 1
               /\ Cardinality(firstResults[i][components[k]].values) = 1

-----------------------------------------------------------------------------
(* Further properties of performComponentCalculations, checked under       *)
(* SpecCalc                                                                *)

\* The span the short-term rate of an input is computed over: the span
\* supplied, 10 years when none (or 0) is.
ShortTermSpanOf(input) ==
    IF input.timeSpan = Undefined \/ input.timeSpan = Zero
    THEN Int2Rat(10) ELSE input.timeSpan

\* The first of the values that is supplied and not 0.
FirstSupplied(values) ==
    LET given == SelectSeq(values, LAMBDA v : v # Undefined /\ v # Zero)
    IN  IF Len(given) = 0 THEN values[Len(values)] ELSE given[1]

\* C22: when performComponentCalculations receives no totalTimeSpan, the
\* long-term rate is computed over the same span as the short-term rate;
\* if in addition no initialThickness and no nominalThickness are
\* supplied, the long-term and the short-term rate are equal and the
\* governing tag is LT.
C22_LongTermSpanDefaultsToShortTermSpan ==
    (call.fn = "performComponentCalculations" /\ call.args[1].totalTimeSpan = Undefined) =>
        LET input == call.args[1]
            span == ShortTermSpanOf(input)
            previous == FirstSupplied(<<input.previousThickness, input.nominalThickness,
                                        input.actualThickness>>)
            initial == FirstSupplied(<<input.initialThickness, input.nominalThickness,
                                       previous>>)
        IN  /\ call.ret.corrosionRateST = RoundTo(
                   calculateShortTermCorrosionRate(previous, input.actualThickness, span),
                   10000)
            /\ call.ret.corrosionRateLT = RoundTo(
                   calculateLongTermCorrosionRate(initial, input.actualThickness, span),
                   10000)
            /\ (input.initialThickness = Undefined /\ input.nominalThickness = Undefined) =>
                   /\ call.ret.corrosionRateLT = call.ret.corrosionRateST
                   /\ call.ret.governingRate = "LT"

\* A call with a span of 4 years, a metal loss over it, and neither a total
\* span nor an initial nor a nominal thickness: both rates are the loss over
\* 4 years, above the floor.
C22_Witness ==
    /\ call.fn = "performComponentCalculations"
    /\ call.args[1].totalTimeSpan = Undefined
    /\ call.args[1].initialThickness = Undefined
    /\ call.args[1].nominalThickness = Undefined
    /\ call.args[1].timeSpan = Int2Rat(4)
    /\ RatLt(call.args[1].actualThickness, call.args[1].previousThickness)
    /\ call.ret.corrosionRateLT = call.ret.corrosionRateST
    /\ RatLt(MIN_NOMINAL_RATE, call.ret.corrosionRateLT)
    /\ call.ret.governingRate = "LT"

\* The value of a numeral of NozzleNumerals.
ValueOfNumeral(n) ==
    CASE n = <<"2">> -> Int2Rat(2)
      [] n = <<"0", ".", "7", "5">> -> Rat(3, 4)
      [] n = <<"1", ".", "5">> -> Rat(3, 2)
      [] n = <<"3", "6">> -> Int2Rat(36)
      [] n = <<"2", ".", "0">> -> Int2Rat(2)
      [] n = <<"5">> -> Int2Rat(5)
      [] n = <<"3", ".", "5">> -> Rat(7, 2)
      [] n = <<"4", "0">> -> Int2Rat(40)
      [] n = <<"0">> -> Zero
      [] n = <<".", "5">> -> Rat(1, 2)

\* The outside diameter of a nominal size: the table entry, size + 0.375
\* for a size absent from the table.
OutsideDiameterOf(size) ==
    IF \E e \in odTable : Rat(e[1], 100) = size
    THEN Rat((CHOOSE e \in odTable : Rat(e[1], 100) = size)[2], 1000)
    ELSE RatAdd(size, Rat(3, 8))

\* C23: calculateNozzleMinimumThickness(P, size, S, E) equals
\* calculateShellMinimumThickness(P, OD / 2, S, E), where OD is the table
\* entry of the numeric nominal size when the size is in the table and
\* size + 0.375 for every numeric size absent from it; a size token with
\* an inch mark gives the same result as the token without it, and E is
\* taken as 1.0 when not supplied.
C23_NozzleIsShellAtHalfOutsideDiameter ==
    call.fn = "calculateNozzleMinimumThickness" =>
        \A n \in NozzleNumerals :
            call.args[2] \in {n, n \o <<"\"">>} =>
                LET P == call.args[1]
                    S == call.args[3]
                    E == IF call.args[4] = Undefined THEN Int2Rat(1) ELSE call.args[4]
                    OD == OutsideDiameterOf(ValueOfNumeral(n))
                IN  /\ call.ret = calculateShellMinimumThickness(
                                      P, RatDiv(OD, Int2Rat(2)), S, E)
                    /\ call.ret = calculateNozzleMinimumThickness(P, n, S, call.args[4])

\* A call for the 3/4 inch size written with an inch mark and without a
\* joint efficiency: the shell thickness at half the table's 1.050 inches.
C23_Witness ==
    /\ call.fn = "calculateNozzleMinimumThickness"
    /\ call.args[2] = <<"0", ".", "7", "5", "\"">>
    /\ call.args[4] = Undefined
    /\ call.args[1] = Int2Rat(150)
    /\ call.ret = calculateShellMinimumThickness(
                      Int2Rat(150), Rat(525, 1000), call.args[3], Int2Rat(1))
    /\ RatLt(Zero, call.ret)

\* C28: every CalculationResult performComponentCalculations returns
\* satisfies: isBelowMinimum = true implies remainingLife = 0,
\* nextInspectionYears = 0 and the below-minimum status; and in all results
\* 0 <= nextInspectionYears <= 10 and remainingLife >= 0.
C28_ResultInvariants ==
    call.fn = "performComponentCalculations" =>
        /\ call.ret.isBelowMinimum =>
               /\ call.ret.remainingLife = Zero
               /\ call.ret.nextInspectionYears = Zero
               /\ call.ret.statusMessage = Unsafe
        /\ RatLe(Zero, call.ret.nextInspectionYears)
        /\ RatLe(call.ret.nextInspectionYears, Int2Rat(10))
        /\ RatLe(Zero, call.ret.remainingLife)

-----------------------------------------------------------------------------
(* Further properties of whole recalculate runs, checked under Spec        *)

\* The status message a run stores for the k-th component it evaluated.
StoredStatusOf(p, k) ==
    LET e == evaluated[p][k]
    IN  CalculationRow(report[p], arg[p], e.componentType, e.input,
                       performComponentCalculations(e.input)).statusMessage

\* The run's alert names the component.
NamedInAlert(p, componentType) ==
    \E m \in 1..Len(SentBy(p, runNo[p])) :
        \E c \in 1..Len(SentBy(p, runNo[p])[m].components) :
            SentBy(p, runNo[p])[m].components[c] = componentType

\* C24: in every completed run a canonical component is named in the
\* criticality alert if and only if its stored status message is the
\* below-minimum one or the under-2-years one: the router's alert decision
\* agrees with the status decided inside performComponentCalculations.
C24_AlertAgreesWithStoredStatus ==
    \A p \in Callers :
        response[p] = "success" =>
            \A k \in 1..Len(evaluated[p]) :
                NamedInAlert(p, evaluated[p][k].componentType)
                    <=> StoredStatusOf(p, k) \in {Unsafe, Critical}

\* No inspection has the id.
NoInspection(inspectionId) ==
    \A k \in 1..Len(inspections) : inspections[k].id # inspectionId

\* No professional report belongs to the inspection.
NoReport(inspectionId) ==
    \A k \in 1..Len(professionalReports) :
        professionalReports[k].inspectionId # inspectionId

\* The step is one of caller p's run: the run starts, moves on or ends.
StepOf(p) == pc'[p] # pc[p] \/ runNo'[p] # runNo[p]

\* A run for an inspection that does not exist has ended with 'Inspection
\* not found'; a run for an inspection without a report is reading the
\* report or has ended with 'Professional report not found'.
NotFoundRunsEndWithTheirError ==
    \A p \in Callers :
        runNo[p] > 0 =>
            /\ NoInspection(arg[p]) =>
                   pc[p] = "idle" /\ response[p] = "Inspection not found"
            /\ (~NoInspection(arg[p]) /\ NoReport(arg[p])) =>
                   \/ pc[p] = "getReport" /\ response[p] = "pending"
                   \/ pc[p] = "idle" /\ response[p] = "Professional report not found"

\* No step of such a run changes the stored calculations or sends a
\* notification.
NotFoundRunsWriteNothing ==
    \A p \in Callers :
        (StepOf(p) /\ (NoInspection(arg'[p]) \/ NoReport(arg'[p]))) =>
            /\ componentCalculations' = componentCalculations
            /\ notifications' = notifications

\* C26: recalculate for an inspection that does not exist, or for one
\* that has no professional report, fails with 'Inspection not found' or
\* 'Professional report not found' before any deletion: the stored
\* component calculations are unchanged and no notification is sent.
C26_NotFoundFailsBeforeAnyWrite ==
    []NotFoundRunsEndWithTheirError /\ [][NotFoundRunsWriteNothing]_vars

\* One caller's run has failed for a missing inspection and the other's
\* for a missing report, with results of an earlier run in the store.
C26_Witness ==
    \E p \in Callers, q \in Callers :
        /\ runNo[p] > 0 /\ NoInspection(arg[p])
        /\ response[p] = "Inspection not found"
        /\ runNo[q] > 0 /\ ~NoInspection(arg[q]) /\ NoReport(arg[q])
        /\ response[q] = "Professional report not found"
        /\ StoredRows # {}

\* The design pressure of the input is one its component cannot sustain at
\* any thickness: the denominator of its minimum-thickness formula is not
\* positive.
PressureNotSustainable(input) ==
    IF input.componentType = "head"
    THEN RatLe(HeadDenominator(input.designPressure, input.allowableStress,
                               input.jointEfficiency), Zero)
    ELSE RatLe(ShellDenominator(input.designPressure, input.allowableStress,
                                input.jointEfficiency), Zero)

\* C27: when the design pressure makes a component's minimum thickness
\* the infinity sentinel, performComponentCalculations does not raise and
\* returns isBelowMinimum = true, remainingLife = 0, nextInspectionYears =
\* 0 and the below-minimum status, and the recalculate run names that
\* component in its alert.
C27_InfiniteMinimumThicknessIsUnsafe ==
    \A p \in Callers : \A k \in 1..Len(evaluated[p]) :
        LET e == evaluated[p][k]
            calcResult == performComponentCalculations(e.input)
        IN  PressureNotSustainable(e.input) =>
                /\ calcResult.minimumThickness = Infinity
                /\ calcResult.isBelowMinimum
                /\ calcResult.remainingLife = Zero
                /\ calcResult.nextInspectionYears = Zero
                /\ calcResult.statusMessage = Unsafe
                /\ \E c \in 1..Len(criticalComponents[p]) :
                       criticalComponents[p][c] = e.componentType
                /\ response[p] = "success" => NamedInAlert(p, e.componentType)

\* A completed run for the vessel at 30000 psi: its shell is stored with
\* an infinite minimum thickness and the alert names it.
C27_Witness ==
    \E p \in Callers :
        /\ response[p] = "success"
        /\ Len(evaluated[p]) = Len(components)
        /\ PressureNotSustainable(evaluated[p][1].input)
        /\ NamedInAlert(p, "shell")
        /\ \E r \in StoredRows :
               /\ r.inspectionId = arg[p]
               /\ r.componentType = "shell"
               /\ r.minimumThickness = InfinityStr
               /\ r.isBelowMinimum
               /\ r.statusMessage = Unsafe

\* The inspection has both dates and its inspection date is not after its
\* previous-inspection date.
SpanNotPositive(insp) ==
    /\ insp.inspectionDate # NullDate
    /\ insp.previousInspectionDate # NullDate
    /\ insp.inspectionDate <= insp.previousInspectionDate

\* C29: when the inspection date and the previous-inspection date are
\* both present and give an elapsed span <= 0 (equal dates, or the previous
\* date after the inspection date), the results of the run report a
\* short-term and a long-term corrosion rate equal to the 0.001 floor for
\* every component.
C29_FloorRatesWhenSpanNotPositive ==
    \A r \in StoredRows :
        SpanNotPositive(getInspectionById(r.inspectionId)) =>
            /\ parseFloat(r.corrosionRateST) = MIN_NOMINAL_RATE
            /\ parseFloat(r.corrosionRateLT) = MIN_NOMINAL_RATE

\* The number of copies of a row a table of calculations holds.
CopiesIn(table, r) == IF r \in DOMAIN table THEN table[r] ELSE 0

\* The row is a calculation of the inspection, filed under a report of
\* that inspection.
BelongsTo(r, inspectionId) ==
    /\ r.inspectionId = inspectionId
    /\ \E k \in 1..Len(professionalReports) :
           /\ professionalReports[k].id = r.reportId
           /\ professionalReports[k].inspectionId = inspectionId

\* A step of a run adds or removes only rows that belong to the run's
\* inspection, and leaves the readings, the inspections and the reports
\* as they are.
RunWritesOnlyItsOwnRows ==
    \A p \in Callers :
        StepOf(p) =>
            /\ \A r \in DOMAIN componentCalculations \cup DOMAIN componentCalculations' :
                   CopiesIn(componentCalculations', r) # CopiesIn(componentCalculations, r)
                       => BelongsTo(r, arg'[p])
            /\ tmlReadings' = tmlReadings
            /\ inspections' = inspections
            /\ professionalReports' = professionalReports

-----------------------------------------------------------------------------
(* Properties of runs that fail part-way, checked under SpecFail           *)

\* C25: a run that fails part-way (an insert throws after the run's delete
\* step) preserves the one-result-per-component invariant: afterwards the
\* store holds for each canonical component of the inspection either the
\* prior result or the new one, never a partially populated or empty
\* component set. Stated for an inspection whose earlier run completed, so
\* that there is a prior result for each component.
C25_FailedRunLeavesOneResultPerComponent ==
    \A p \in Callers :
        (/\ response[p] = "insert failed"
         /\ completed[arg[p]] >= 1
         /\ arg[p] \notin overlapped
         /\ Quiet(arg[p]))
            => OneResultPerComponent(arg[p])

=============================================================================
